---- MODULE Spec2Model ----
(***************************************************************************)
(* Acquisition and frame-synchronisation subsystem of lgplot (TCD1304 CCD  *)
(* spectrum analyzer): the USB serial decoder, the UDP datagram decoder,   *)
(* the receiver thread lifecycle, the mutex-guarded shared sample array    *)
(* and the one-second statistics window.                                   *)
(***************************************************************************)
EXTENDS Integers, Sequences, FiniteSets, TLC

(***************************************************************************)
(* Program constants (config.h, connection.cpp).                           *)
(***************************************************************************)
\* config.h:14 has 3694; the model runs the same code on a short array.
CCD_PIXEL_COUNT == 2
USB_FRAME_START == 17
USB_PIXEL_START == 165
USB_PIXEL_END == 90
UDP_MAGIC == 170
\* sizeof(UdpPacketHeader) under #pragma pack(1): 1 + 4 + 4 + 2 + 2
UDP_HEADER_SIZE == 13
UDP_BUFFER_SLACK == 100
SERIAL_BUFFER_SIZE == 16384
STATS_WINDOW_MS == 1000

(***************************************************************************)
(* Bounds of the model.                                                    *)
(***************************************************************************)
\* the steady clock stops advancing once it has reached MaxNow milliseconds
MaxNow == 2000

Pixels == 1..CCD_PIXEL_COUNT

ZeroPixels == [i \in Pixels |-> 0]

Min(a, b) == IF a < b THEN a ELSE b

RECURSIVE Gcd(_, _)
Gcd(a, b) == IF b = 0 THEN a ELSE Gcd(b, a % b)

(***************************************************************************)
(* packets_since_last * 1000.0f / elapsed.  The quotient is kept as the    *)
(* exact fraction in lowest terms <<numerator, denominator>>; a whole      *)
(* number below 2^24 is <<n, 1>> and is exactly the float the code stores. *)
(***************************************************************************)
RateNoScale(count, elapsed) ==
    LET g == Gcd(count, elapsed)
    IN  <<count \div g, elapsed \div g>>
Rate(count, elapsed) ==
    LET n == count * 1000
        g == Gcd(n, elapsed)
    IN  <<n \div g, elapsed \div g>>

(***************************************************************************)
(* State.                                                                  *)
(*   g_app   the AppState fields the subsystem uses                        *)
(*   usb     locals and position of usb_receiver_thread                    *)
(*   udp     locals and position of udp_receiver_thread                    *)
(*   ui      position and locals of the UI thread (main loop)              *)
(*   wire    bytes the serial device will still deliver, in order          *)
(*   stream  what the serial device sends in this run, and the byte the    *)
(*           line corrupts, if any (never changes)                         *)
(*   fw      the firmware of the device: the double-buffer DMA stream of    *)
(*           the ADC, ready_buffer and the copy of the frame-send function *)
(*   net     datagrams that will still arrive on the UDP port, in order    *)
(*   now     std::chrono::steady_clock, in milliseconds                    *)
(*   hist    history of the last publication and of the statistics window, *)
(*           whether the transport has failed and a read has seen it, the  *)
(*           number of completed overwrites of spectrum_data, and whether  *)
(*           spectrum_data was touched outside its lock                    *)
(***************************************************************************)
VARIABLES g_app, usb, udp, ui, wire, stream, fw, net, now, hist

vars == <<g_app, usb, udp, ui, wire, stream, fw, net, now, hist>>

(***************************************************************************)
(* AppState::AppState and the member initialisers.                         *)
(***************************************************************************)
AppStateInitStale ==
    [ spectrum_data      |-> [i \in Pixels |-> 1],
      snapshot_data      |-> ZeroPixels,
      is_frozen          |-> FALSE,
      data_mutex         |-> "free",
      log_mutex          |-> "free",
      connection_mode    |-> "None",
      receiver_running   |-> FALSE,
      receiver_thread    |-> "none",
      udp_socket         |-> "invalid",
      wsa_refs           |-> 0,
      serial_handle      |-> "invalid",
      packets_received   |-> 0,
      last_sequence      |-> 0,
      packets_per_second |-> <<0, 1>>,
      frame_complete_log |-> 0,
      snapshot_timestamps    |-> <<>>,
      history_selected_index |-> -1,
      history_loaded         |-> FALSE,
      projects               |-> 0,
      current_project_index  |-> 0,
      detected_peaks         |-> <<>>,
      peak_threshold         |-> 500,
      peak_min_distance      |-> 50,
      terminated         |-> FALSE ]
AppStateInit ==
    [ spectrum_data      |-> ZeroPixels,
      snapshot_data      |-> ZeroPixels,
      is_frozen          |-> FALSE,
      data_mutex         |-> "free",
      log_mutex          |-> "free",
      connection_mode    |-> "None",
      receiver_running   |-> FALSE,
      receiver_thread    |-> "none",
      udp_socket         |-> "invalid",
      wsa_refs           |-> 0,
      serial_handle      |-> "invalid",
      packets_received   |-> 0,
      last_sequence      |-> 0,
      packets_per_second |-> <<0, 1>>,
      frame_complete_log |-> 0,
      snapshot_timestamps    |-> <<>>,
      history_selected_index |-> -1,
      history_loaded         |-> FALSE,
      projects               |-> 0,
      current_project_index  |-> 0,
      detected_peaks         |-> <<>>,
      peak_threshold         |-> 500,
      peak_min_distance      |-> 50,
      terminated         |-> FALSE ]

\* locals of usb_receiver_thread as declared at its top; pc "none": no thread
UsbLocalsInit(t) ==
    [ pc                 |-> "loop",
      buffer             |-> <<>>,
      pixel_index        |-> 0,
      receiving_frame    |-> FALSE,
      temp_pixels        |-> ZeroPixels,
      last_stats_time    |-> t,
      packets_since_last |-> 0,
      pixels_this_frame  |-> 0,
      i                  |-> 0 ]

UsbNoThread == [UsbLocalsInit(0) EXCEPT !.pc = "none"]


UdpBufferSize == UDP_HEADER_SIZE + CCD_PIXEL_COUNT * 2 + UDP_BUFFER_SLACK

\* std::vector<uint8_t> buffer(...) is value-initialised: all zero
UdpLocalsInit(t) ==
    [ pc                 |-> "loop",
      buffer             |-> [k \in 1..UdpBufferSize |-> 0],
      last_stats_time    |-> t,
      packets_since_last |-> 0,
      i                  |-> 0 ]

UdpNoThread == [UdpLocalsInit(0) EXCEPT !.pc = "none"]

UiInit ==
    [ pc     |-> "idle",
      view   |-> ZeroPixels,
      i      |-> 0,
      call   |-> "none",
      ret    |-> "none",
      avail   |-> "none",
      before  |-> "none",
      stopped |-> "None",
      peaks_from |-> "none" ]

HistInit ==
    [ pub_old      |-> ZeroPixels,
      pub_new      |-> ZeroPixels,
      writer       |-> "none",
      window_base  |-> 0,
      tick_elapsed |-> 0,
      tick_count   |-> 0,
      tick_kind    |-> "none",
      ticks        |-> 0,
      dgram        |-> <<>>,
      accepted     |-> <<>>,
      memo         |-> {},
      unplugged    |-> FALSE,
      failed_read  |-> FALSE,
      at_exit      |-> AppStateInit,
      bare_access  |-> FALSE,
      bare_log     |-> FALSE,
      overwrites   |-> 0 ]

(***************************************************************************)
(* std::lock_guard<std::mutex> lock(g_app.data_mutex): the constructor     *)
(* returns only once no other thread holds the mutex.                      *)
(***************************************************************************)
CanLockNoExclusion == TRUE
CanLock == g_app.data_mutex = "free"

\* log_message: std::lock_guard<std::mutex> lock(g_app.log_mutex), held for
\* the push_back and the trim to MAX_LOG_LINES
CanLog == g_app.log_mutex = "free"

\* history: a thread reads or writes console_log; holder is the value
\* log_mutex has while that thread owns it
LogTouch(h, g, holder) ==
    IF g.log_mutex = holder THEN h ELSE [h EXCEPT !.bare_log = TRUE]

\* history: a thread reads or writes spectrum_data; holder is the value
\* data_mutex has while that thread owns it
Touch(h, g, holder) ==
    IF g.data_mutex = holder THEN h ELSE [h EXCEPT !.bare_access = TRUE]

(***************************************************************************)
(* USB serial decoder: the pixel parser of usb_receiver_thread.            *)
(***************************************************************************)
\* the scan for USB_PIXEL_START and the memmove that drops what precedes it
RECURSIVE SkipToPixelStart(_)
SkipToPixelStart(buf) ==
    IF buf # <<>> /\ Head(buf) # USB_PIXEL_START
    THEN SkipToPixelStart(Tail(buf))
    ELSE buf

\* uint16_t pixel_value = low_byte | (high_byte << 8)
PixelValueSwapped(low_byte, high_byte) == (high_byte + 256 * low_byte) % 65536
PixelValue(low_byte, high_byte) == (low_byte + 256 * high_byte) % 65536

\* one pass of the body of while (buffer_pos >= 4), entered with 4 bytes or more
ParseStepNoIndexGuard(l) ==
    LET b == SkipToPixelStart(l.buffer)
    IN  IF Len(b) < 4
        THEN [l EXCEPT !.buffer = b]
        ELSE IF b[1] = USB_PIXEL_START /\ b[4] = USB_PIXEL_END
        THEN [l EXCEPT !.buffer = SubSeq(b, 5, Len(b)),
                       !.temp_pixels = [k \in Pixels |->
                           IF k = l.pixel_index + 1 THEN PixelValue(b[2], b[3]) ELSE @[k]],
                       !.pixel_index = l.pixel_index + 1,
                       !.pixels_this_frame = l.pixels_this_frame + 1]
        ELSE [l EXCEPT !.buffer = Tail(b)]
ParseStepDropsLast(l) ==
    LET b == SkipToPixelStart(l.buffer)
    IN  IF Len(b) < 4
        THEN [l EXCEPT !.buffer = b]
        ELSE IF b[1] = USB_PIXEL_START /\ b[4] = USB_PIXEL_END
        THEN IF l.pixel_index < CCD_PIXEL_COUNT
             THEN [l EXCEPT !.buffer = SubSeq(b, 5, Len(b)),
                            !.temp_pixels[l.pixel_index + 1] = PixelValue(b[2], b[3]),
                            !.pixel_index = l.pixel_index + 1,
                            !.pixels_this_frame = l.pixels_this_frame + 1]
             ELSE [l EXCEPT !.buffer = SubSeq(b, 5, Len(b))]
        ELSE [l EXCEPT !.buffer = SubSeq(b, 1, Len(b) - 1)]
ParseStepClearsWindow(l) ==
    LET b == SkipToPixelStart(l.buffer)
    IN  IF Len(b) < 4
        THEN [l EXCEPT !.buffer = b]
        ELSE IF b[1] = USB_PIXEL_START /\ b[4] = USB_PIXEL_END
        THEN IF l.pixel_index < CCD_PIXEL_COUNT
             THEN [l EXCEPT !.buffer = SubSeq(b, 5, Len(b)),
                            !.temp_pixels[l.pixel_index + 1] = PixelValue(b[2], b[3]),
                            !.pixel_index = l.pixel_index + 1,
                            !.pixels_this_frame = l.pixels_this_frame + 1]
             ELSE [l EXCEPT !.buffer = SubSeq(b, 5, Len(b))]
        ELSE [l EXCEPT !.buffer = <<>>]
ParseStep(l) ==
    LET b == SkipToPixelStart(l.buffer)
    IN  IF Len(b) < 4
        THEN [l EXCEPT !.buffer = b]
        ELSE IF b[1] = USB_PIXEL_START /\ b[4] = USB_PIXEL_END
        THEN IF l.pixel_index < CCD_PIXEL_COUNT
             THEN [l EXCEPT !.buffer = SubSeq(b, 5, Len(b)),
                            !.temp_pixels[l.pixel_index + 1] = PixelValue(b[2], b[3]),
                            !.pixel_index = l.pixel_index + 1,
                            !.pixels_this_frame = l.pixels_this_frame + 1]
             ELSE [l EXCEPT !.buffer = SubSeq(b, 5, Len(b))]
        ELSE [l EXCEPT !.buffer = Tail(b)]

\* while (buffer_pos >= 4) { ... }
RECURSIVE ParseLoop(_)
ParseLoopLeavesFour(l) ==
    IF Len(l.buffer) > 4 THEN ParseLoop(ParseStep(l)) ELSE l
ParseLoop(l) ==
    IF Len(l.buffer) >= 4 THEN ParseLoop(ParseStep(l)) ELSE l

\* if (buffer_pos < buffer.size()) buffer[buffer_pos++] = byte
StoreByte(l, byte) ==
    IF Len(l.buffer) < SERIAL_BUFFER_SIZE
    THEN [l EXCEPT !.buffer = Append(l.buffer, byte)]
    ELSE l

\* receiving_frame = true; pixel_index = 0; pixels_this_frame = 0; buffer_pos = 0
FrameResetKeepsIndex(l) ==
    [l EXCEPT !.receiving_frame = TRUE, !.pixels_this_frame = 0, !.buffer = <<>>]
FrameResetKeepsWindow(l) ==
    [l EXCEPT !.receiving_frame = TRUE, !.pixel_index = 0, !.pixels_this_frame = 0]
FrameReset(l) ==
    [l EXCEPT !.receiving_frame = TRUE, !.pixel_index = 0,
              !.pixels_this_frame = 0, !.buffer = <<>>]

\* if (!receiving_frame) { buffer_pos = 0; continue; }
DiscardKeepsByte(l) == l
Discard(l) == [l EXCEPT !.buffer = <<>>]

\* if (receiving_frame && pixel_index > 0)
FrameCompleteAnyMarker(l) == l.receiving_frame
FrameComplete(l) == l.receiving_frame /\ l.pixel_index > 0

\* the statistics block that ends an iteration of the serial loop
UsbTickDue(l) == now - l.last_stats_time >= STATS_WINDOW_MS

UsbStatsLocals(l) ==
    IF UsbTickDue(l)
    THEN [l EXCEPT !.packets_since_last = 0, !.last_stats_time = now]
    ELSE l

UsbStatsSharedKeepsSequence(l, g) ==
    IF UsbTickDue(l)
    THEN [g EXCEPT !.packets_per_second =
                       Rate(l.packets_since_last, now - l.last_stats_time)]
    ELSE g
UsbStatsShared(l, g) ==
    IF UsbTickDue(l)
    THEN [g EXCEPT !.packets_per_second =
                       Rate(l.packets_since_last, now - l.last_stats_time),
                   !.last_sequence = l.pixels_this_frame]
    ELSE g

\* history: the window that a statistics tick closes, with the number of
\* frames published in it (received: packets_received after the step)
HistTick(kind, l, received) ==
    IF now - l.last_stats_time >= STATS_WINDOW_MS
    THEN [hist EXCEPT !.window_base = received,
                      !.tick_elapsed = now - l.last_stats_time,
                      !.tick_count = received - hist.window_base,
                      !.tick_kind = kind,
                      !.ticks = hist.ticks + 1]
    ELSE hist

Alive == ~g_app.terminated

\* history: a read that returns nothing after the transport has failed
ReadFailed(h) == IF h.unplugged THEN [h EXCEPT !.failed_read = TRUE] ELSE h

\* while (g_app.receiver_running): the loop condition, read on every iteration
StopRequestedNever(g) == FALSE
StopRequested(g) == ~g.receiver_running


(***************************************************************************)
(* usb_receiver_thread.                                                    *)
(***************************************************************************)
\* while (g_app.receiver_running) is false: the thread function returns
UsbExit ==
    /\ Alive
    /\ usb.pc = "loop"
    /\ StopRequested(g_app)
    /\ CanLog
    /\ usb' = [usb EXCEPT !.pc = "done"]
    /\ UNCHANGED <<g_app, udp, ui, wire, stream, fw, net, now, hist>>

\* ReadFile fails or times out with no byte: Sleep(1); continue
UsbReadNone ==
    /\ Alive
    /\ usb.pc = "loop"
    /\ g_app.receiver_running
    /\ hist' = ReadFailed(hist)
    /\ UNCHANGED <<g_app, usb, udp, ui, wire, stream, fw, net, now>>

\* ReadFile delivers one byte: the rest of the loop body, up to the frame
\* publication or to the end of the iteration
UsbReadByte ==
    /\ Alive
    /\ usb.pc = "loop"
    /\ g_app.receiver_running
    /\ g_app.serial_handle = "open"
    /\ wire # <<>>
    /\ wire' = Tail(wire)
    /\ LET byte == Head(wire)
           l1   == StoreByte(usb, byte)
       IN  IF byte = USB_FRAME_START
           THEN /\ usb' = IF FrameComplete(l1)
                          THEN [l1 EXCEPT !.pc = "pub_lock"]
                          ELSE FrameReset(l1)
                /\ UNCHANGED <<g_app, hist>>
           ELSE IF ~l1.receiving_frame
           THEN /\ usb' = Discard(l1)
                /\ UNCHANGED <<g_app, hist>>
           ELSE LET l2 == ParseLoop(l1)
                IN  /\ usb' = UsbStatsLocals(l2)
                    /\ g_app' = UsbStatsShared(l2, g_app)
                    /\ hist' = HistTick("usb", l2, g_app.packets_received)
    /\ UNCHANGED <<udp, ui, stream, fw, net, now>>

\* std::lock_guard<std::mutex> lock(g_app.data_mutex)
UsbPubLock ==
    /\ Alive
    /\ usb.pc = "pub_lock"
    /\ CanLock
    /\ g_app' = [g_app EXCEPT !.data_mutex = "rx"]
    /\ usb' = [usb EXCEPT !.pc = "pub_copy", !.i = 0]
    /\ hist' = [hist EXCEPT !.pub_old = g_app.spectrum_data, !.writer = "usb"]
    /\ UNCHANGED <<udp, ui, wire, stream, fw, net, now>>

\* for (i = 0; i < pixel_index && i < CCD_PIXEL_COUNT; i++) spectrum_data[i] = temp_pixels[i]
UsbPubCopyWritesSnapshot ==
    /\ Alive
    /\ usb.pc = "pub_copy"
    /\ usb.i < usb.pixel_index /\ usb.i < CCD_PIXEL_COUNT
    /\ g_app' = [g_app EXCEPT !.spectrum_data[usb.i + 1] = usb.temp_pixels[usb.i + 1],
                              !.snapshot_data[usb.i + 1] = usb.temp_pixels[usb.i + 1]]
    /\ usb' = [usb EXCEPT !.i = usb.i + 1]
    /\ hist' = Touch(hist, g_app, "rx")
    /\ UNCHANGED <<udp, ui, wire, stream, fw, net, now>>
UsbPubCopy ==
    /\ Alive
    /\ usb.pc = "pub_copy"
    /\ usb.i < usb.pixel_index /\ usb.i < CCD_PIXEL_COUNT
    /\ g_app' = [g_app EXCEPT !.spectrum_data[usb.i + 1] = usb.temp_pixels[usb.i + 1]]
    /\ usb' = [usb EXCEPT !.i = usb.i + 1]
    /\ hist' = Touch(hist, g_app, "rx")
    /\ UNCHANGED <<udp, ui, wire, stream, fw, net, now>>

\* the loop is over and the lock_guard goes out of scope
UsbPubUnlockClearsRest ==
    /\ Alive
    /\ usb.pc = "pub_copy"
    /\ ~(usb.i < usb.pixel_index /\ usb.i < CCD_PIXEL_COUNT)
    /\ g_app' = [g_app EXCEPT !.data_mutex = "free",
                              !.spectrum_data = [k \in Pixels |->
                                  IF k > usb.pixel_index THEN 0 ELSE @[k]]]
    /\ usb' = [usb EXCEPT !.pc = "pub_count"]
    /\ hist' = [hist EXCEPT !.pub_new = g_app'.spectrum_data,
                            !.overwrites = hist.overwrites + 1]
    /\ UNCHANGED <<udp, ui, wire, stream, fw, net, now>>
UsbPubUnlock ==
    /\ Alive
    /\ usb.pc = "pub_copy"
    /\ ~(usb.i < usb.pixel_index /\ usb.i < CCD_PIXEL_COUNT)
    /\ g_app' = [g_app EXCEPT !.data_mutex = "free"]
    /\ usb' = [usb EXCEPT !.pc = "pub_count"]
    /\ hist' = [hist EXCEPT !.pub_new = g_app.spectrum_data,
                            !.overwrites = hist.overwrites + 1]
    /\ UNCHANGED <<udp, ui, wire, stream, fw, net, now>>

\* packets_received++; packets_since_last++; log_message("Frame complete: ...");
\* then the reset of the frame state and continue
UsbPubCount ==
    /\ Alive
    /\ usb.pc = "pub_count"
    /\ CanLog
    /\ g_app' = [g_app EXCEPT !.packets_received = g_app.packets_received + 1,
                              !.frame_complete_log = usb.pixel_index]
    /\ usb' = [FrameReset(usb) EXCEPT !.pc = "loop",
                                      !.packets_since_last = usb.packets_since_last + 1]
    /\ UNCHANGED <<udp, ui, wire, stream, fw, net, now, hist>>

UsbThread ==
    \/ UsbExit
    \/ UsbReadNone
    \/ UsbReadByte
    \/ UsbPubLock
    \/ UsbPubCopy
    \/ UsbPubUnlock
    \/ UsbPubCount


(***************************************************************************)
(* udp_receiver_thread.                                                    *)
(***************************************************************************)
\* little-endian fields of the packed UdpPacketHeader, and the payload
Le16(buf, k) == buf[k] + 256 * buf[k + 1]

Le32(buf, k) == buf[k] + 256 * buf[k + 1] + 65536 * buf[k + 2] + 16777216 * buf[k + 3]

HeaderSequenceNum(buf) == Le32(buf, 2)

HeaderPixelCount(buf) == Le16(buf, 10)

\* static_cast<float>(pixels[i]), pixels = buffer.data() + sizeof(UdpPacketHeader)
UdpPixel(buf, i) == Le16(buf, UDP_HEADER_SIZE + 1 + 2 * i)

\* recvfrom into the thread's buffer: the datagram overwrites the front of
\* the buffer and leaves the rest as it was; a datagram longer than the
\* buffer is cut and reported as an error (WSAEMSGSIZE)
RecvInto(buf, d) ==
    [k \in 1..UdpBufferSize |-> IF k <= Len(d) THEN d[k] ELSE buf[k]]

RecvBytes(d) == IF Len(d) <= UdpBufferSize THEN Len(d) ELSE -1

\* bytes > 0 && bytes >= sizeof(UdpPacketHeader), buffer[0] == 0xAA,
\* header->pixel_count <= CCD_PIXEL_COUNT
DatagramAcceptedVerifiesChecksum(bytes, buf) ==
    /\ bytes > 0
    /\ bytes >= UDP_HEADER_SIZE
    /\ buf[1] = UDP_MAGIC
    /\ HeaderPixelCount(buf) <= CCD_PIXEL_COUNT
    /\ Le16(buf, 12) = 0
DatagramAcceptedNoCountCheck(bytes, buf) ==
    /\ bytes > 0
    /\ bytes >= UDP_HEADER_SIZE
    /\ buf[1] = UDP_MAGIC
DatagramAccepted(bytes, buf) ==
    /\ bytes > 0
    /\ bytes >= UDP_HEADER_SIZE
    /\ buf[1] = UDP_MAGIC
    /\ HeaderPixelCount(buf) <= CCD_PIXEL_COUNT

\* the statistics block that ends an iteration of the datagram loop
UdpTickDue(l) == now - l.last_stats_time >= STATS_WINDOW_MS

UdpStatsLocals(l) ==
    IF UdpTickDue(l)
    THEN [l EXCEPT !.packets_since_last = 0, !.last_stats_time = now]
    ELSE l

UdpStatsShared(l, g) ==
    IF UdpTickDue(l)
    THEN [g EXCEPT !.packets_per_second =
                       Rate(l.packets_since_last, now - l.last_stats_time)]
    ELSE g

\* one whole iteration of the datagram loop on datagram d, run from the top
\* of the loop with locals l and shared state g and nothing in between:
\* the locals and the shared state at the end of the iteration
UdpIteration(l, g, d) ==
    LET l1 == [l EXCEPT !.buffer = RecvInto(l.buffer, d)]
    IN  IF DatagramAccepted(RecvBytes(d), l1.buffer)
        THEN LET n  == HeaderPixelCount(l1.buffer)
                 g1 == [g EXCEPT !.spectrum_data = [k \in Pixels |->
                                     IF k <= n THEN UdpPixel(l1.buffer, k - 1) ELSE @[k]],
                                 !.packets_received = g.packets_received + 1,
                                 !.last_sequence = HeaderSequenceNum(l1.buffer)]
                 l2 == [l1 EXCEPT !.packets_since_last = l.packets_since_last + 1,
                                  !.i = n]
             IN  [locals |-> UdpStatsLocals(l2), shared |-> UdpStatsShared(l2, g1),
                  accepted |-> TRUE]
        ELSE [locals |-> UdpStatsLocals(l1), shared |-> UdpStatsShared(l1, g),
              accepted |-> FALSE]

UdpExit ==
    /\ Alive
    /\ udp.pc = "loop"
    /\ StopRequested(g_app)
    /\ CanLog
    /\ udp' = [udp EXCEPT !.pc = "done"]
    /\ UNCHANGED <<g_app, usb, ui, wire, stream, fw, net, now, hist>>

\* recvfrom times out (SO_RCVTIMEO) or fails: bytes is SOCKET_ERROR
UdpRecvNone ==
    /\ Alive
    /\ udp.pc = "loop"
    /\ g_app.receiver_running
    /\ udp' = UdpStatsLocals(udp)
    /\ g_app' = UdpStatsShared(udp, g_app)
    /\ hist' = ReadFailed(HistTick("udp", udp, g_app.packets_received))
    /\ UNCHANGED <<usb, ui, wire, stream, fw, net, now>>

\* recvfrom delivers the next datagram
UdpRecv ==
    /\ Alive
    /\ udp.pc = "loop"
    /\ g_app.receiver_running
    /\ g_app.udp_socket = "open"
    /\ net # <<>>
    /\ net' = Tail(net)
    /\ LET d     == Head(net)
           bytes == RecvBytes(d)
           l1    == [udp EXCEPT !.buffer = RecvInto(udp.buffer, d)]
       IN  IF DatagramAccepted(bytes, l1.buffer)
           THEN /\ udp' = [l1 EXCEPT !.pc = "pub_lock"]
                /\ hist' = [hist EXCEPT !.dgram = d, !.accepted = d]
                /\ UNCHANGED g_app
           ELSE /\ udp' = UdpStatsLocals(l1)
                /\ g_app' = UdpStatsShared(l1, g_app)
                /\ hist' = [HistTick("udp", l1, g_app.packets_received) EXCEPT !.dgram = d]
    /\ UNCHANGED <<usb, ui, wire, stream, fw, now>>

UdpPubLock ==
    /\ Alive
    /\ udp.pc = "pub_lock"
    /\ CanLock
    /\ g_app' = [g_app EXCEPT !.data_mutex = "rx"]
    /\ udp' = [udp EXCEPT !.pc = "pub_copy", !.i = 0]
    /\ hist' = [hist EXCEPT !.pub_old = g_app.spectrum_data, !.writer = "udp"]
    /\ UNCHANGED <<usb, ui, wire, stream, fw, net, now>>

\* for (uint16_t i = 0; i < header->pixel_count; ++i) spectrum_data[i] = pixels[i]
UdpPubCopy ==
    /\ Alive
    /\ udp.pc = "pub_copy"
    /\ udp.i < HeaderPixelCount(udp.buffer)
    /\ g_app' = [g_app EXCEPT !.spectrum_data[udp.i + 1] = UdpPixel(udp.buffer, udp.i)]
    /\ udp' = [udp EXCEPT !.i = udp.i + 1]
    /\ hist' = Touch(hist, g_app, "rx")
    /\ UNCHANGED <<usb, ui, wire, stream, fw, net, now>>

UdpPubUnlock ==
    /\ Alive
    /\ udp.pc = "pub_copy"
    /\ ~(udp.i < HeaderPixelCount(udp.buffer))
    /\ g_app' = [g_app EXCEPT !.data_mutex = "free"]
    /\ udp' = [udp EXCEPT !.pc = "pub_count"]
    /\ hist' = [hist EXCEPT !.pub_new = g_app.spectrum_data,
                            !.overwrites = hist.overwrites + 1,
                            !.memo = @ \cup {<<hist.dgram, g_app.spectrum_data>>}]
    /\ UNCHANGED <<usb, ui, wire, stream, fw, net, now>>

\* packets_received++; last_sequence = header->sequence_num; packets_since_last++;
\* then the statistics block
UdpPubCount ==
    /\ Alive
    /\ udp.pc = "pub_count"
    /\ LET l1 == [udp EXCEPT !.pc = "loop",
                             !.packets_since_last = udp.packets_since_last + 1]
           g1 == [g_app EXCEPT !.packets_received = g_app.packets_received + 1,
                               !.last_sequence = HeaderSequenceNum(udp.buffer)]
       IN  /\ udp' = UdpStatsLocals(l1)
           /\ g_app' = UdpStatsShared(l1, g1)
           /\ hist' = HistTick("udp", l1, g1.packets_received)
    /\ UNCHANGED <<usb, ui, wire, stream, fw, net, now>>

UdpThread ==
    \/ UdpExit
    \/ UdpRecvNone
    \/ UdpRecv
    \/ UdpPubLock
    \/ UdpPubCopy
    \/ UdpPubUnlock
    \/ UdpPubCount


(***************************************************************************)
(* Connection management: open_serial_port, close_serial_port,             *)
(* start_usb_receiver, start_udp_receiver, stop_receiver.                  *)
(***************************************************************************)
\* CreateFileA with share mode 0 fails when the device is unavailable or the
\* port is already held open; its result is stored in serial_handle
OpenSerialPort(g, avail) ==
    IF avail = "ok" /\ g.serial_handle # "open"
    THEN [g EXCEPT !.serial_handle = "open"]
    ELSE [g EXCEPT !.serial_handle = "invalid"]

\* if (serial_handle != INVALID_HANDLE_VALUE) { CloseHandle; serial_handle = INVALID }
CloseSerialPortLeavesHandle(g) == g
CloseSerialPort(g) ==
    IF g.serial_handle # "invalid"
    THEN [g EXCEPT !.serial_handle = "invalid"]
    ELSE g

\* g_app.receiver_thread = std::thread(f): move-assigning to a joinable
\* std::thread calls std::terminate
SpawnThread(g, kind) ==
    IF g.receiver_thread # "none"
    THEN [g EXCEPT !.terminated = TRUE]
    ELSE [g EXCEPT !.receiver_thread = kind]

\* start_usb_receiver: the state of g_app when it returns
StartUsbResetsCount(g, avail) ==
    LET g1 == OpenSerialPort(g, avail)
    IN  IF g1.serial_handle # "open"
        THEN g1
        ELSE SpawnThread([g1 EXCEPT !.receiver_running = TRUE,
                                    !.connection_mode = "USB",
                                    !.packets_received = 0], "usb")
StartUsbReceiver(g, avail) ==
    LET g1 == OpenSerialPort(g, avail)
    IN  IF g1.serial_handle # "open"
        THEN g1
        ELSE SpawnThread([g1 EXCEPT !.receiver_running = TRUE,
                                    !.connection_mode = "USB"], "usb")

\* start_udp_receiver: WSAStartup, socket, bind, then the thread
StartUdpLeaksSocket(g, avail) ==
    IF avail = "wsa_fail"
    THEN g
    ELSE IF avail = "socket_fail"
    THEN [g EXCEPT !.udp_socket = "invalid"]
    ELSE IF avail = "bind_fail"
    THEN [g EXCEPT !.udp_socket = "open", !.wsa_refs = g.wsa_refs + 1]
    ELSE SpawnThread([g EXCEPT !.udp_socket = "open",
                               !.wsa_refs = g.wsa_refs + 1,
                               !.receiver_running = TRUE,
                               !.connection_mode = "UDP"], "udp")
StartUdpReceiver(g, avail) ==
    IF avail = "wsa_fail"
    THEN g
    ELSE IF avail = "socket_fail"
    THEN [g EXCEPT !.udp_socket = "invalid"]
    ELSE IF avail = "bind_fail"
    THEN [g EXCEPT !.udp_socket = "closed"]
    ELSE SpawnThread([g EXCEPT !.udp_socket = "open",
                               !.wsa_refs = g.wsa_refs + 1,
                               !.receiver_running = TRUE,
                               !.connection_mode = "UDP"], "udp")

\* the release half of stop_receiver, after the join
ReleaseTransportAnyMode(g) ==
    [g EXCEPT !.udp_socket = IF g.udp_socket # "invalid" THEN "invalid" ELSE @,
              !.wsa_refs = IF g.wsa_refs > 0 THEN g.wsa_refs - 1 ELSE 0,
              !.serial_handle = "invalid",
              !.connection_mode = "None"]
ReleaseTransport(g) ==
    LET g1 == IF g.connection_mode = "UDP"
              THEN [g EXCEPT !.udp_socket =
                                 IF g.udp_socket # "invalid" THEN "invalid" ELSE @,
                             !.wsa_refs = IF g.wsa_refs > 0 THEN g.wsa_refs - 1 ELSE 0]
              ELSE IF g.connection_mode = "USB"
              THEN CloseSerialPort(g)
              ELSE g
    IN  [g1 EXCEPT !.connection_mode = "None"]

\* g_app.receiver_running = false, the first statement of stop_receiver
SignalStopClosesFirst(g) ==
    [ReleaseTransport(g) EXCEPT !.receiver_running = FALSE,
                                !.connection_mode = g.connection_mode]
SignalStopClearsRate(g) ==
    [g EXCEPT !.receiver_running = FALSE, !.packets_per_second = <<0, 1>>]
SignalStop(g) == [g EXCEPT !.receiver_running = FALSE]

\* if (receiver_thread.joinable()) receiver_thread.join(): returns at once when
\* there is no thread, and otherwise when the thread function has returned
JoinReturnsNoWait == TRUE
JoinReturns ==
    \/ g_app.receiver_thread = "none"
    \/ g_app.receiver_thread = "usb" /\ usb.pc = "done"
    \/ g_app.receiver_thread = "udp" /\ udp.pc = "done"

(***************************************************************************)
(* The UI thread: the buttons of draw_controls_panel and the plot of       *)
(* draw_spectrum_chart.                                                    *)
(***************************************************************************)
SerialOutcomes == {"ok", "open_fail"}

UdpOutcomes == {"ok", "wsa_fail", "socket_fail", "bind_fail"}

\* if (g_app.connection_mode == ConnectionMode::None) the connect buttons are
\* shown, else the disconnect button
ConnectShownAlways == TRUE
ConnectShown == g_app.connection_mode = "None"

\* the call the UI thread has just made, what the environment answered, what
\* the call returned, and the call before it
UiCalled(name, avail, ret) ==
    [ui EXCEPT !.call = name, !.avail = avail, !.ret = ret, !.before = ui.call]

ClickUsbConnect ==
    /\ Alive
    /\ ui.pc = "idle"
    /\ ConnectShown
    /\ \E avail \in SerialOutcomes :
         LET g1 == StartUsbReceiver(g_app, avail)
         IN  /\ g_app' = g1
             /\ ui' = UiCalled("start_usb", avail,
                               IF g1.serial_handle = "open" THEN "true" ELSE "false")
             /\ IF g1.serial_handle = "open" /\ ~g1.terminated
                THEN /\ usb' = UsbLocalsInit(now)
                     /\ hist' = [hist EXCEPT !.window_base = g_app.packets_received]
                ELSE UNCHANGED <<usb, hist>>
    /\ UNCHANGED <<udp, wire, stream, fw, net, now>>

ClickUdpConnect ==
    /\ Alive
    /\ ui.pc = "idle"
    /\ ConnectShown
    /\ \E avail \in UdpOutcomes :
         LET g1 == StartUdpReceiver(g_app, avail)
         IN  /\ g_app' = g1
             /\ ui' = UiCalled("start_udp", avail,
                               IF avail = "ok" THEN "true" ELSE "false")
             /\ IF avail = "ok" /\ ~g1.terminated
                THEN /\ udp' = UdpLocalsInit(now)
                     /\ hist' = [hist EXCEPT !.window_base = g_app.packets_received]
                ELSE UNCHANGED <<udp, hist>>
    /\ UNCHANGED <<usb, wire, stream, fw, net, now>>

\* the Disconnect button: stop_receiver up to the join
ClickDisconnect ==
    /\ Alive
    /\ ui.pc = "idle"
    /\ ~ConnectShown
    /\ g_app' = SignalStop(g_app)
    /\ ui' = [ui EXCEPT !.pc = "stop_join"]
    /\ UNCHANGED <<usb, udp, wire, stream, fw, net, now, hist>>

\* stop_receiver from the join to its return
StopJoinRelease ==
    /\ Alive
    /\ ui.pc = "stop_join"
    /\ JoinReturns
    /\ g_app' = ReleaseTransport([g_app EXCEPT !.receiver_thread = "none"])
    /\ usb' = IF g_app.receiver_thread = "usb" /\ usb.pc = "done" THEN UsbNoThread ELSE usb
    /\ udp' = IF g_app.receiver_thread = "udp" /\ udp.pc = "done" THEN UdpNoThread ELSE udp
    /\ ui' = [UiCalled("stop", "none", "void") EXCEPT
                 !.pc = "idle", !.stopped = g_app.connection_mode]
    /\ UNCHANGED <<wire, stream, fw, net, now, hist>>

\* main, after the window has closed: the call of stop_receiver up to the join
\* (hist.at_exit keeps the state the call found)
MainExitStop ==
    /\ Alive
    /\ ui.pc = "idle"
    /\ g_app' = SignalStop(g_app)
    /\ ui' = [ui EXCEPT !.pc = "exit_join"]
    /\ hist' = [hist EXCEPT !.at_exit = g_app]
    /\ UNCHANGED <<usb, udp, wire, stream, fw, net, now>>

\* that call from the join to its return; main then leaves the loop for good
MainExitJoinRelease ==
    /\ Alive
    /\ ui.pc = "exit_join"
    /\ JoinReturns
    /\ g_app' = ReleaseTransport([g_app EXCEPT !.receiver_thread = "none"])
    /\ usb' = IF g_app.receiver_thread = "usb" /\ usb.pc = "done" THEN UsbNoThread ELSE usb
    /\ udp' = IF g_app.receiver_thread = "udp" /\ udp.pc = "done" THEN UdpNoThread ELSE udp
    /\ ui' = [UiCalled("stop", "none", "void") EXCEPT
                 !.pc = "exited", !.stopped = g_app.connection_mode]
    /\ UNCHANGED <<wire, stream, fw, net, now, hist>>

\* draw_spectrum_chart: the lock_guard, PlotLine reading the CCD_PIXEL_COUNT
\* samples, and the end of the block
DrawLock ==
    /\ Alive
    /\ ui.pc = "idle"
    /\ CanLock
    /\ g_app' = [g_app EXCEPT !.data_mutex = "ui"]
    /\ ui' = [ui EXCEPT !.pc = "chart_copy", !.i = 0]
    /\ UNCHANGED <<usb, udp, wire, stream, fw, net, now, hist>>

DrawCopy ==
    /\ Alive
    /\ ui.pc = "chart_copy"
    /\ ui.i < CCD_PIXEL_COUNT
    /\ LET data == IF g_app.is_frozen THEN g_app.snapshot_data ELSE g_app.spectrum_data
       IN  ui' = [ui EXCEPT !.view[ui.i + 1] = data[ui.i + 1], !.i = ui.i + 1]
    /\ hist' = IF g_app.is_frozen THEN hist ELSE Touch(hist, g_app, "ui")
    /\ UNCHANGED <<g_app, usb, udp, wire, stream, fw, net, now>>

DrawUnlock ==
    /\ Alive
    /\ ui.pc = "chart_copy"
    /\ ui.i = CCD_PIXEL_COUNT
    /\ g_app' = [g_app EXCEPT !.data_mutex = "free"]
    /\ ui' = [ui EXCEPT !.pc = "idle"]
    /\ UNCHANGED <<usb, udp, wire, stream, fw, net, now, hist>>

\* detect_peaks: const std::vector<float> &data =
\*     g_app.is_frozen ? g_app.snapshot_data : g_app.spectrum_data
DetectPeaksSource(g) == IF g.is_frozen THEN "snapshot" ELSE "spectrum"

\* the run of detect_peaks over data (the peaks it finds are not kept here)
DetectPeaks(holder) ==
    /\ ui' = [ui EXCEPT !.peaks_from = DetectPeaksSource(g_app),
                        !.pc = IF ui.pc = "freeze_peaks" THEN "freeze_log" ELSE ui.pc]
    /\ hist' = IF DetectPeaksSource(g_app) = "spectrum"
               THEN Touch(hist, g_app, holder)
               ELSE hist

\* the Freeze Frame button, shown while not frozen: freeze_frame, statement
\* by statement: lock_guard, the copy and the flag, detect_peaks,
\* log_message and the return that releases the lock
FreezeLock ==
    /\ Alive
    /\ ui.pc = "idle"
    /\ ~g_app.is_frozen
    /\ CanLock
    /\ g_app' = [g_app EXCEPT !.data_mutex = "ui"]
    /\ ui' = [ui EXCEPT !.pc = "freeze_copy"]
    /\ UNCHANGED <<usb, udp, wire, stream, fw, net, now, hist>>

FreezeCopySwaps ==
    /\ Alive
    /\ ui.pc = "freeze_copy"
    /\ g_app' = [g_app EXCEPT !.snapshot_data = g_app.spectrum_data,
                              !.spectrum_data = g_app.snapshot_data,
                              !.is_frozen = TRUE]
    /\ ui' = [ui EXCEPT !.pc = "freeze_peaks"]
    /\ hist' = Touch(hist, g_app, "ui")
    /\ UNCHANGED <<usb, udp, wire, stream, fw, net, now>>
FreezeCopy ==
    /\ Alive
    /\ ui.pc = "freeze_copy"
    /\ g_app' = [g_app EXCEPT !.snapshot_data = g_app.spectrum_data,
                              !.is_frozen = TRUE]
    /\ ui' = [ui EXCEPT !.pc = "freeze_peaks"]
    /\ hist' = Touch(hist, g_app, "ui")
    /\ UNCHANGED <<usb, udp, wire, stream, fw, net, now>>

FreezePeaks ==
    /\ Alive
    /\ ui.pc = "freeze_peaks"
    /\ DetectPeaks("ui")
    /\ UNCHANGED <<g_app, usb, udp, wire, stream, fw, net, now>>

FreezeLogUnlock ==
    /\ Alive
    /\ ui.pc = "freeze_log"
    /\ g_app' = [g_app EXCEPT !.data_mutex = "free"]
    /\ ui' = [ui EXCEPT !.pc = "idle"]
    /\ UNCHANGED <<usb, udp, wire, stream, fw, net, now, hist>>

\* the Resume Live button, shown while frozen: unfreeze_frame
Unfreeze ==
    /\ Alive
    /\ ui.pc = "idle"
    /\ g_app.is_frozen
    /\ g_app' = [g_app EXCEPT !.is_frozen = FALSE]
    /\ UNCHANGED <<usb, udp, ui, wire, stream, fw, net, now, hist>>

\* if (g_app.is_frozen && ImGui::Button("Re-detect Peaks")) detect_peaks();
\* the UI thread holds no lock there
RedetectShownAlways == TRUE
RedetectShown == g_app.is_frozen

Redetect ==
    /\ Alive
    /\ ui.pc = "idle"
    /\ RedetectShown
    /\ DetectPeaks("none")
    /\ UNCHANGED <<g_app, usb, udp, wire, stream, fw, net, now>>

\* draw_console_panel, drawn in a frame of the main loop: the Clear button
\* (lock_guard, console_log.clear(), end of the block), the line count in
\* the header, then the locked block that iterates over the lines
ConsoleClearLock ==
    /\ Alive
    /\ ui.pc = "idle"
    /\ CanLog
    /\ g_app' = [g_app EXCEPT !.log_mutex = "ui"]
    /\ ui' = [ui EXCEPT !.pc = "console_clear"]
    /\ UNCHANGED <<usb, udp, wire, stream, fw, net, now, hist>>

ConsoleClearUnlock ==
    /\ Alive
    /\ ui.pc = "console_clear"
    /\ g_app' = [g_app EXCEPT !.log_mutex = "free"]
    /\ ui' = [ui EXCEPT !.pc = "console_size"]
    /\ hist' = LogTouch(hist, g_app, "ui")
    /\ UNCHANGED <<usb, udp, wire, stream, fw, net, now>>

\* ImGui::Text("Log (%zu lines)", g_app.console_log.size()), reached with or
\* without a click on Clear
ConsoleSize ==
    /\ Alive
    /\ ui.pc \in {"idle", "console_size"}
    /\ ui' = [ui EXCEPT !.pc = "console_iter_lock"]
    /\ hist' = LogTouch(hist, g_app, "ui")
    /\ UNCHANGED <<g_app, usb, udp, wire, stream, fw, net, now>>

ConsoleIterLock ==
    /\ Alive
    /\ ui.pc = "console_iter_lock"
    /\ CanLog
    /\ g_app' = [g_app EXCEPT !.log_mutex = "ui"]
    /\ ui' = [ui EXCEPT !.pc = "console_iter"]
    /\ UNCHANGED <<usb, udp, wire, stream, fw, net, now, hist>>

ConsoleIterUnlock ==
    /\ Alive
    /\ ui.pc = "console_iter"
    /\ g_app' = [g_app EXCEPT !.log_mutex = "free"]
    /\ ui' = [ui EXCEPT !.pc = "idle"]
    /\ hist' = LogTouch(hist, g_app, "ui")
    /\ UNCHANGED <<usb, udp, wire, stream, fw, net, now>>

(***************************************************************************)
(* The environment: the steady clock.                                      *)
(***************************************************************************)
TimeSteps == {400, 600}

ClockAdvance ==
    /\ Alive
    /\ \E d \in TimeSteps :
         /\ now + d <= MaxNow
         /\ now' = now + d
    /\ UNCHANGED <<g_app, usb, udp, ui, wire, stream, fw, net, hist>>


\* the device is unplugged, or the network goes down, while a receiver runs:
\* nothing more arrives and every later read returns an error or nothing
Unplug ==
    /\ Alive
    /\ ~hist.unplugged
    /\ usb.pc \notin {"none", "done"} \/ udp.pc \notin {"none", "done"}
    /\ wire' = <<>>
    /\ net' = <<>>
    /\ hist' = [hist EXCEPT !.unplugged = TRUE]
    /\ UNCHANGED <<g_app, usb, udp, ui, stream, fw, now>>


(***************************************************************************)
(* The firmware of the device: the ADC's DMA stream in double-buffer mode, *)
(* HAL_ADC_ConvCpltCallback and the copy of Send_CCD_Frame_Binary.         *)
(***************************************************************************)
\* the stream is started on Buffer_A (memory 0, CT = 0) with Buffer_B as
\* memory 1; ready_buffer is NULL; count is the number of samples the DMA
\* has written into its current target
FirmwareInit ==
    [ ct             |-> 0,
      count          |-> 0,
      irq            |-> FALSE,
      ready_buffer   |-> "NULL",
      buffer_updated |-> 0,
      send_pc        |-> "idle",
      src            |-> "NULL",
      send_i         |-> 0 ]

\* the buffer the DMA writes into: memory 1 (M1AR = Buffer_B) while CT is
\* set, memory 0 (Buffer_A) otherwise
DmaTarget(f) == IF f.ct = 1 THEN "B" ELSE "A"

\* the body of HAL_ADC_ConvCpltCallback
ConvCplt(f) ==
    [f EXCEPT !.ready_buffer = IF f.ct = 1 THEN "A" ELSE "B",
              !.buffer_updated = 1,
              !.irq = FALSE]

\* the DMA stores one conversion; the store that fills the buffer switches
\* the target (circular double-buffer mode) and raises the transfer-complete
\* interrupt
DmaStore ==
    /\ fw' = IF fw.count + 1 = CCD_PIXEL_COUNT
             THEN [fw EXCEPT !.count = 0, !.ct = 1 - fw.ct, !.irq = TRUE]
             ELSE [fw EXCEPT !.count = fw.count + 1]
    /\ UNCHANGED <<g_app, usb, udp, ui, wire, stream, net, now, hist>>

\* the interrupt is served: HAL_ADC_ConvCpltCallback runs
ConvCpltCallback ==
    /\ fw.irq
    /\ fw' = ConvCplt(fw)
    /\ UNCHANGED <<g_app, usb, udp, ui, wire, stream, net, now, hist>>

\* the main loop runs only while no interrupt is pending
MainLoopRuns == ~fw.irq

\* the main loop finds buffer_updated set and sends a frame: memcpy reads
\* the pointer ready_buffer once and then copies from that buffer
SendBegin ==
    /\ MainLoopRuns
    /\ fw.send_pc = "idle"
    /\ fw.buffer_updated = 1
    /\ fw' = [fw EXCEPT !.send_pc = "copy", !.src = fw.ready_buffer,
                        !.send_i = 0, !.buffer_updated = 0]
    /\ UNCHANGED <<g_app, usb, udp, ui, wire, stream, net, now, hist>>

SendCopy ==
    /\ MainLoopRuns
    /\ fw.send_pc = "copy"
    /\ fw.send_i < CCD_PIXEL_COUNT
    /\ fw' = [fw EXCEPT !.send_i = fw.send_i + 1]
    /\ UNCHANGED <<g_app, usb, udp, ui, wire, stream, net, now, hist>>

\* the copy is over; the frame is transmitted and the main loop goes on
SendEnd ==
    /\ MainLoopRuns
    /\ fw.send_pc = "copy"
    /\ fw.send_i = CCD_PIXEL_COUNT
    /\ fw' = [fw EXCEPT !.send_pc = "idle", !.src = "NULL", !.send_i = 0]
    /\ UNCHANGED <<g_app, usb, udp, ui, wire, stream, net, now, hist>>

(***************************************************************************)
(* What the devices send.                                                  *)
(***************************************************************************)
\* one pixel record of the serial protocol
Record(lo, hi) == <<USB_PIXEL_START, lo, hi, USB_PIXEL_END>>

RECURSIVE Flatten(_)
Flatten(ss) == IF ss = <<>> THEN <<>> ELSE Head(ss) \o Flatten(Tail(ss))

\* a frame-start marker, the records, and the marker that ends the frame
Frame(recs) == <<USB_FRAME_START>> \o Flatten(recs) \o <<USB_FRAME_START>>

\* a datagram: the packed header and the payload bytes
Datagram(magic, seq, count, payload) ==
    <<magic, seq % 256, (seq \div 256) % 256, 0, 0, 0, 0, 0, 0,
      count % 256, count \div 256, 0, 0>> \o payload

\* a transmission that reaches the port as it was sent
Sent(bytes) == [bytes |-> bytes, rec |-> 0, pos |-> 0]

\* the transmission of a frame whose record rec has its byte pos replaced by x
Corrupted(recs, rec, pos, x) ==
    [bytes |-> Frame([recs EXCEPT ![rec][pos] = x]), rec |-> rec, pos |-> pos]

\* the records of a transmitted frame, as they arrive
RecordCount(st) == (Len(st.bytes) - 2) \div 4

RecordAt(st, k) == SubSeq(st.bytes, 4 * k - 2, 4 * k + 1)

SeqsUpTo(S, n) == UNION {[1..k -> S] : k \in 0..n}

\* the serial bytes and the datagrams of the full system's run
SystemWire == Frame(<<Record(1, 0), Record(2, 0)>>) \o Flatten(<<Record(3, 0)>>) \o <<USB_FRAME_START>>

SystemNet ==
    << Datagram(UDP_MAGIC, 7, 2, <<4, 0, 5, 0>>),
       Datagram(UDP_MAGIC, 8, 1, <<6, 0>>) >>

Base ==
    /\ g_app = AppStateInit
    /\ fw = FirmwareInit
    /\ usb = UsbNoThread
    /\ udp = UdpNoThread
    /\ ui = UiInit
    /\ now = 0
    /\ hist = HistInit

(***************************************************************************)
(* The whole subsystem: both transports, the UI thread and the clock.      *)
(***************************************************************************)
Init ==
    /\ Base
    /\ stream = Sent(SystemWire)
    /\ wire = stream.bytes
    /\ net = SystemNet

Next ==
    \/ UsbThread
    \/ UdpThread
    \/ ClickUsbConnect
    \/ ClickUdpConnect
    \/ ClickDisconnect
    \/ StopJoinRelease
    \/ DrawLock
    \/ DrawCopy
    \/ DrawUnlock

Spec == Init /\ [][Next]_vars

\* a receiver thread that has been started and not yet joined
UsbThreadExists == usb.pc # "none"

UdpThreadExists == udp.pc # "none"

Publishing(l) == l.pc \in {"pub_lock", "pub_copy", "pub_count"}

\* the UI thread has read all CCD_PIXEL_COUNT samples of the live frame and
\* still holds the lock
ReadComplete ==
    /\ ui.pc = "chart_copy"
    /\ ui.i = CCD_PIXEL_COUNT
    /\ ~g_app.is_frozen

\* C1: a complete read of the frame array by the UI thread, taken under the
\* lock while a receiver thread publishes, is the array as it was before the
\* publication or as it is after it, never part old and part new.
C1_NoTornRead ==
    ReadComplete => ui.view \in {hist.pub_old, hist.pub_new}

\* the UI thread has read a published frame while the receiver, with the next
\* frame ready, waits for the lock
C1_Witness ==
    /\ ReadComplete
    /\ usb.pc = "pub_lock"
    /\ g_app.data_mutex = "ui"
    /\ ui.view = hist.pub_new
    /\ ui.view # ZeroPixels

\* the lock the reader takes is held only by a receiver thread inside its
\* copy loop: the reader waits for a copy to end, never for one to begin
ReaderNeverWaitsForData ==
    (ui.pc = "idle" /\ usb.pc # "pub_copy" /\ udp.pc # "pub_copy")
        => g_app.data_mutex = "free"

\* C24: a reader that reads the sample array before the first publication
\* receives the initial state, all CCD_PIXEL_COUNT samples zero, and the read
\* does not wait for a publication.
C24_InitialRead ==
    /\ (ReadComplete /\ hist.overwrites = 0) => ui.view = ZeroPixels
    /\ ReaderNeverWaitsForData

\* the UI thread has read the whole array while the serial thread, its first
\* frame assembled, waits for the lock to publish it
C24_Witness ==
    /\ ReadComplete
    /\ hist.overwrites = 0
    /\ g_app.packets_received = 0
    /\ usb.pc = "pub_lock"
    /\ usb.temp_pixels # ZeroPixels
    /\ ui.view = ZeroPixels

\* the last two calls of the UI thread were stop_receiver, which ended a
\* connection of kind old, and then the start of the other kind
Switched(old, start) ==
    /\ ui.call = start
    /\ ui.before = "stop"
    /\ ui.stopped = old

\* C7: after stop_receiver has returned, starting the other kind of receiver
\* succeeds when its transport is available, the old thread has exited and
\* publishes nothing more, and every publication is made by the thread of the
\* transport the connection mode names.
C7_SwitchTransport ==
    /\ Publishing(usb) => g_app.connection_mode = "USB"
    /\ Publishing(udp) => g_app.connection_mode = "UDP"
    /\ (Switched("USB", "start_udp") /\ ui.avail = "ok") =>
           /\ ui.ret = "true"
           /\ g_app.connection_mode = "UDP"
           /\ ~UsbThreadExists
           /\ UdpThreadExists
    /\ (Switched("UDP", "start_usb") /\ ui.avail = "ok") =>
           /\ ui.ret = "true"
           /\ g_app.connection_mode = "USB"
           /\ ~UdpThreadExists
           /\ UsbThreadExists

\* a serial connection published a frame, was stopped, and the UDP receiver
\* started after it has published a frame of its own
C7_Witness ==
    /\ Switched("USB", "start_udp")
    /\ ui.ret = "true"
    /\ hist.writer = "udp"
    /\ udp.pc = "pub_count"
    /\ g_app.spectrum_data = <<4, 5>> \o [i \in 1..(CCD_PIXEL_COUNT - 2) |-> 0]
    /\ g_app.packets_received = 1

\* at most one receiver thread and one open transport, of the kind the
\* connection mode names
C9_ThreadsInv ==
    /\ ~(UsbThreadExists /\ UdpThreadExists)
    /\ UsbThreadExists => g_app.connection_mode = "USB" /\ g_app.receiver_thread = "usb"
    /\ UdpThreadExists => g_app.connection_mode = "UDP" /\ g_app.receiver_thread = "udp"
    /\ ~(g_app.serial_handle = "open" /\ g_app.udp_socket = "open")
    /\ ~g_app.terminated

\* a step that sets the connection mode to a kind starts from mode None, with
\* the UI thread outside stop_receiver and no receiver thread left
C9_StartStep ==
    g_app'.connection_mode \notin {"None", g_app.connection_mode} =>
        /\ g_app.connection_mode = "None"
        /\ ui.pc = "idle"
        /\ ~UsbThreadExists
        /\ ~UdpThreadExists
        /\ g_app.receiver_thread = "none"
        /\ ~g_app.receiver_running

\* C9: at most one receiver thread and one channel exist at any time, and a
\* connection is started only from the disconnected state, with no receiver
\* thread left and the previous stop_receiver completed.
C9_OneChannel == []C9_ThreadsInv /\ [][C9_StartStep]_vars

\* the serial receiver runs on a connection made after a UDP connection was
\* stopped
C9_Witness ==
    /\ Switched("UDP", "start_usb")
    /\ g_app.connection_mode = "USB"
    /\ usb.pc = "loop"
    /\ usb.receiving_frame
    /\ ~UdpThreadExists

StartCalled == ui.call \in {"start_usb", "start_udp"}

\* C10: a start call fails exactly when its transport cannot be opened or
\* bound; a failed start leaves the mode None, no thread and no transport
\* resource open; a successful start leaves the mode set, the running flag
\* true and exactly one receiver thread.
C10_StartOutcome ==
    /\ StartCalled => (ui.ret = "false" <=> ui.avail # "ok")
    /\ (StartCalled /\ ui.ret = "false") =>
           /\ g_app.connection_mode = "None"
           /\ ~g_app.receiver_running
           /\ g_app.receiver_thread = "none"
           /\ ~UsbThreadExists
           /\ ~UdpThreadExists
           /\ g_app.serial_handle # "open"
           /\ g_app.udp_socket # "open"
           /\ g_app.wsa_refs = 0
    /\ (StartCalled /\ ui.ret = "true" /\ ui.pc # "stop_join") =>
           /\ g_app.receiver_running
           /\ g_app.connection_mode = (IF ui.call = "start_usb" THEN "USB" ELSE "UDP")
           /\ g_app.receiver_thread = (IF ui.call = "start_usb" THEN "usb" ELSE "udp")
           /\ UsbThreadExists <=> ui.call = "start_usb"
           /\ UdpThreadExists <=> ui.call = "start_udp"

\* a start of the UDP receiver whose bind failed, after an earlier connection
C10_Witness ==
    /\ ui.call = "start_udp"
    /\ ui.avail = "bind_fail"
    /\ ui.ret = "false"
    /\ ui.before = "stop"
    /\ g_app.udp_socket = "closed"

\* a receiver thread whose function has not returned
UsbThreadRuns == usb.pc \notin {"none", "done"}

UdpThreadRuns == udp.pc \notin {"none", "done"}

\* while a receiver thread runs, the handle it reads from is open
C11_HandleOpenWhileRunning ==
    /\ UsbThreadRuns => g_app.serial_handle = "open"
    /\ UdpThreadRuns => g_app.udp_socket = "open"

\* a handle is closed only by stop_receiver, past its join, when the thread
\* has exited; the serial bytes and the datagrams are taken only by the
\* receiver thread of their transport, from an open handle
C11_ReleaseStep ==
    /\ (g_app.serial_handle = "open" /\ g_app'.serial_handle # "open") =>
           /\ ui.pc = "stop_join" /\ ui'.pc = "idle"
           /\ ~g_app.receiver_running
           /\ usb.pc = "done"
    /\ (g_app.udp_socket = "open" /\ g_app'.udp_socket # "open") =>
           /\ ui.pc = "stop_join" /\ ui'.pc = "idle"
           /\ ~g_app.receiver_running
           /\ udp.pc = "done"
    /\ wire' # wire =>
           usb.pc = "loop" /\ udp' = udp /\ ui' = ui /\ g_app.serial_handle = "open"
    /\ net' # net =>
           udp.pc = "loop" /\ usb' = usb /\ ui' = ui /\ g_app.udp_socket = "open"

\* C11: stop_receiver signals, joins, then releases: the handle is released
\* only after the receiver thread has exited, the thread never reads from a
\* closed handle, and nothing but the thread reads from or closes the handle
\* while it runs.
C11_SignalJoinRelease == []C11_HandleOpenWhileRunning /\ [][C11_ReleaseStep]_vars

\* stop_receiver has signalled and waits in the join while the serial thread,
\* its handle still open, is in the middle of a publication
C11_Witness ==
    /\ ui.pc = "stop_join"
    /\ ~g_app.receiver_running
    /\ usb.pc = "pub_copy"
    /\ usb.i = 1
    /\ g_app.serial_handle = "open"

\* C16: the overwrite of the samples and the increment of packets_received
\* are one critical section: whenever data_mutex is free, packets_received is
\* the number of completed overwrites of spectrum_data.
C16_CountWithOverwrite ==
    g_app.data_mutex = "free" => g_app.packets_received = hist.overwrites

\* the slots above K are as they were when the publication began
KeptAbove(K) ==
    \A k \in Pixels : k > K => g_app.spectrum_data[k] = hist.pub_old[k]

\* C18: a publication is a partial update: a serial frame with K assembled
\* pixels, or a datagram declaring K pixels, leaves every slot with index
\* >= K at the value it had before the publication.
C18_PartialUpdate ==
    /\ usb.pc = "pub_count" => KeptAbove(usb.pixel_index)
    /\ udp.pc = "pub_count" => KeptAbove(hist.dgram[10] + 256 * hist.dgram[11])

\* the serial frame of one pixel, published over a frame of two pixels
C18_Witness ==
    /\ usb.pc = "pub_count"
    /\ usb.pixel_index = 1
    /\ hist.pub_old = <<1, 2>> \o [i \in 1..(CCD_PIXEL_COUNT - 2) |-> 0]
    /\ g_app.spectrum_data = <<3, 2>> \o [i \in 1..(CCD_PIXEL_COUNT - 2) |-> 0]

(***************************************************************************)
(* Stopping: the whole subsystem with the threads scheduled fairly.  Each  *)
(* receiver thread keeps running while it can take a step, and the UI      *)
(* thread returns from the join once the receiver thread has finished.     *)
(***************************************************************************)
InitLive ==
    /\ Base
    /\ stream \in {Sent(<<>>), Sent(SystemWire)}
    /\ wire = stream.bytes
    /\ net \in {<<>>, SystemNet}

SpecLive ==
    /\ InitLive
    /\ [][Next]_vars
    /\ WF_vars(UsbThread)
    /\ WF_vars(UdpThread)
    /\ WF_vars(StopJoinRelease)

StopReturned ==
    /\ ui.pc = "idle"
    /\ ui.call = "stop"
    /\ g_app.connection_mode = "None"
    /\ ~UsbThreadExists
    /\ ~UdpThreadExists

\* C12: once stop_receiver has cleared receiver_running, the receiver thread
\* exits after finitely many steps, whatever has arrived, and stop_receiver
\* returns with connection_mode None.
C12_StopTerminates == (ui.pc = "stop_join") ~> StopReturned

\* stop_receiver has returned from a serial connection on which no byte
\* ever arrived
C12_Witness ==
    /\ StopReturned
    /\ ui.stopped = "USB"
    /\ stream.bytes = <<>>
    /\ g_app.serial_handle = "invalid"

(***************************************************************************)
(* Transport failure: the whole subsystem with a transport that can fail   *)
(* while a receiver thread runs.                                           *)
(***************************************************************************)
NextFailure ==
    \/ Next
    \/ Unplug

SpecFailure == Init /\ [][NextFailure]_vars

\* C13: once a read has failed on a transport that failed mid-stream, the
\* failure is recorded and ends the loop: the channel state is Error, or the
\* receiver thread has left its loop; it does not go on reading with the
\* running flag set and the mode unchanged.
C13_FailureEndsLoop ==
    (hist.failed_read /\ g_app.receiver_running) =>
        \/ g_app.connection_mode \notin {"None", "USB", "UDP"}
        \/ ~UsbThreadRuns /\ ~UdpThreadRuns

(***************************************************************************)
(* Leaving the application: the whole subsystem with the stop_receiver     *)
(* that main calls after its loop, in whatever state the channel is.       *)
(***************************************************************************)
NextExit ==
    \/ Next
    \/ MainExitStop
    \/ MainExitJoinRelease

SpecExit == Init /\ [][NextExit]_vars

\* C14: stop_receiver called with the connection mode None, be it because no
\* channel was started or because stop_receiver has just been called, is a
\* no-op: the mode stays None, no handle is closed, no thread is joined, and
\* the state is the one the call found.
C14_StopIsNoOp ==
    (ui.pc = "exited" /\ hist.at_exit.connection_mode = "None") =>
        /\ g_app = hist.at_exit
        /\ ~UsbThreadExists
        /\ ~UdpThreadExists

\* stop_receiver called twice in a row, by the Disconnect button and then by
\* main, after a connection that published a frame
C14_Witness ==
    /\ ui.pc = "exited"
    /\ ui.call = "stop"
    /\ ui.before = "stop"
    /\ hist.at_exit.connection_mode = "None"
    /\ g_app.packets_received = 1

\* the UI thread is not inside a call of stop_receiver (a start call is one
\* step)
OutsideStartAndStop == ui.pc \notin {"stop_join", "exit_join"}

LifecycleAgrees ==
    /\ g_app.receiver_running <=> g_app.connection_mode # "None"
    /\ g_app.receiver_running <=> g_app.receiver_thread # "none"
    /\ g_app.receiver_running <=> (UsbThreadExists \/ UdpThreadExists)
    /\ g_app.serial_handle = "open" <=> g_app.connection_mode = "USB"
    /\ g_app.udp_socket = "open" <=> g_app.connection_mode = "UDP"
    /\ g_app.wsa_refs = (IF g_app.connection_mode = "UDP" THEN 1 ELSE 0)

\* C37: outside the execution of a start or stop call the lifecycle flags
\* agree: receiver_running is true exactly when connection_mode is not None,
\* exactly when a receiver thread exists; the serial handle is open exactly
\* when the mode is USB, and the UDP socket is open, with Winsock
\* initialised, exactly when the mode is UDP, after any sequence of
\* successful starts, failed starts and stops.
C37_LifecycleFlagsAgree == OutsideStartAndStop => LifecycleAgrees

\* a serial connection was stopped, a start of the UDP receiver failed in
\* bind, the next one succeeded and the UI thread draws the chart
C37_Witness ==
    /\ ui.pc = "chart_copy"
    /\ ui.stopped = "USB"
    /\ ui.call = "start_udp"
    /\ ui.before = "start_udp"
    /\ ui.ret = "true"
    /\ g_app.connection_mode = "UDP"
    /\ g_app.udp_socket = "open"
    /\ g_app.serial_handle = "invalid"


(***************************************************************************)
(* Freezing: the whole subsystem with the Freeze Frame, Resume Live and    *)
(* Re-detect Peaks buttons of the snapshot panel.                          *)
(***************************************************************************)
NextFreeze ==
    \/ Next
    \/ FreezeLock
    \/ FreezeCopy
    \/ FreezePeaks
    \/ FreezeLogUnlock
    \/ Unfreeze
    \/ Redetect

SpecFreeze == Init /\ [][NextFreeze]_vars

\* C15: every read and every write of spectrum_data, by a receiver thread
\* and by the UI thread (chart, freeze, peak detection), is made by a thread
\* that holds data_mutex.
C15_AlwaysUnderLock ==
    /\ ~hist.bare_access
    /\ (usb.pc = "pub_copy" \/ udp.pc = "pub_copy") => g_app.data_mutex = "rx"
    /\ ui.pc \in {"chart_copy", "freeze_copy", "freeze_peaks"} => g_app.data_mutex = "ui"

\* peaks were detected again on a frozen frame, outside the lock, while the
\* serial thread holds the lock and writes its second sample
C15_Witness ==
    /\ g_app.is_frozen
    /\ g_app.snapshot_data # ZeroPixels
    /\ ui.pc = "idle"
    /\ ui.peaks_from = "snapshot"
    /\ usb.pc = "pub_copy"
    /\ usb.i = 1
    /\ g_app.data_mutex = "rx"

\* a step that changes a sample is a step of the copy loop of a receiver
\* thread, which holds the lock; the UI thread takes no part in it
SampleWriteStep ==
    g_app'.spectrum_data # g_app.spectrum_data =>
        /\ \/ usb.pc = "pub_copy" /\ usb'.i = usb.i + 1 /\ udp' = udp
           \/ udp.pc = "pub_copy" /\ udp'.i = udp.i + 1 /\ usb' = usb
        /\ g_app.data_mutex = "rx"
        /\ ui' = ui

\* C23: the receiver thread is the sole writer of the sample array: no
\* operation of the UI thread (drawing, freeze and unfreeze, peak detection,
\* start, stop) changes any element of spectrum_data.
C23_SoleWriter == [][SampleWriteStep]_vars

\* the UI thread froze the first frame, detected peaks and stopped the
\* channel, and the samples are those of the second frame the receiver
\* published meanwhile
C23_Witness ==
    /\ g_app.is_frozen
    /\ ui.peaks_from = "snapshot"
    /\ ui.call = "stop"
    /\ ui.pc = "chart_copy"
    /\ g_app.snapshot_data = <<1, 2>> \o [i \in 1..(CCD_PIXEL_COUNT - 2) |-> 0]
    /\ g_app.spectrum_data = <<3, 2>> \o [i \in 1..(CCD_PIXEL_COUNT - 2) |-> 0]

\* a step that changes the snapshot is the copy of freeze_frame: made under
\* the lock, with no receiver thread inside a publication, of the whole
\* sample array as the last publication left it
SnapshotStep ==
    g_app'.snapshot_data # g_app.snapshot_data =>
        /\ ui.pc = "freeze_copy"
        /\ g_app.data_mutex = "ui"
        /\ usb.pc # "pub_copy" /\ udp.pc # "pub_copy"
        /\ usb' = usb /\ udp' = udp
        /\ g_app.spectrum_data = hist.pub_new
        /\ g_app'.snapshot_data = g_app.spectrum_data
        /\ g_app'.is_frozen

\* while the frame stays frozen the snapshot stays as it is
FrozenStep ==
    (g_app.is_frozen /\ g_app'.is_frozen) => g_app'.snapshot_data = g_app.snapshot_data

\* C36: freeze_frame copies the shared sample array into snapshot_data at
\* one instant under the data lock, and while the frame stays frozen no
\* publication by the receiver thread changes any element of snapshot_data
\* (publications keep updating only spectrum_data).
C36_SnapshotUnaffected == [][SnapshotStep /\ FrozenStep]_vars

\* the first frame is frozen and the serial thread, publishing the second
\* frame, has overwritten the first sample of spectrum_data
C36_Witness ==
    /\ g_app.is_frozen
    /\ ui.pc = "idle"
    /\ usb.pc = "pub_copy"
    /\ usb.i = 1
    /\ g_app.snapshot_data[1] = 1
    /\ g_app.spectrum_data[1] = 3
    /\ hist.overwrites = 1

\* C17: the UI thread holds data_mutex only for the copy-out: while it holds
\* the lock it is copying samples (the chart's read, the snapshot copy of
\* freeze_frame) and does nothing else before it releases the lock.
C17_LockOnlyForCopy ==
    g_app.data_mutex = "ui" => ui.pc \in {"chart_copy", "freeze_copy"}

(***************************************************************************)
(* The console: the whole subsystem with the console panel, whose log the  *)
(* receiver threads and the UI thread append to through log_message.       *)
(***************************************************************************)
NextConsole ==
    \/ Next
    \/ ConsoleClearLock
    \/ ConsoleClearUnlock
    \/ ConsoleSize
    \/ ConsoleIterLock
    \/ ConsoleIterUnlock

SpecConsole == Init /\ [][NextConsole]_vars

\* C29: console logging is thread-safe: every access to console_log (the
\* append and the trim in log_message, and in the console panel the clear,
\* the iteration and the read of its size) is made by a thread that holds
\* log_mutex.
C29_LogUnderMutex ==
    /\ ~hist.bare_log
    /\ ui.pc \in {"console_clear", "console_iter"} => g_app.log_mutex = "ui"

(***************************************************************************)
(* The two mutexes: the serial receiver, the chart, the freeze button and  *)
(* the console panel, with every log_message that is called next to a use  *)
(* of data_mutex taken in two steps, the lock_guard on log_mutex and the   *)
(* append that ends with its release.                                      *)
(***************************************************************************)
\* packets_received++; packets_since_last++; then log_message up to its
\* lock_guard; the publication's lock_guard on data_mutex ended at the brace
\* before
UsbCountLogLock ==
    /\ Alive
    /\ usb.pc = "pub_count"
    /\ CanLog
    /\ g_app' = [g_app EXCEPT !.packets_received = g_app.packets_received + 1,
                              !.log_mutex = "rx"]
    /\ usb' = [usb EXCEPT !.pc = "pub_log",
                          !.packets_since_last = usb.packets_since_last + 1]
    /\ UNCHANGED <<udp, ui, wire, stream, fw, net, now, hist>>

\* the append, the return of log_message, the reset of the frame state and
\* continue
UsbLogUnlockKeepsMutex ==
    /\ Alive
    /\ usb.pc = "pub_log"
    /\ g_app' = [g_app EXCEPT !.frame_complete_log = usb.pixel_index]
    /\ usb' = [FrameReset(usb) EXCEPT !.pc = "loop"]
    /\ hist' = LogTouch(hist, g_app, "rx")
    /\ UNCHANGED <<udp, ui, wire, stream, fw, net, now>>
UsbLogUnlock ==
    /\ Alive
    /\ usb.pc = "pub_log"
    /\ g_app' = [g_app EXCEPT !.frame_complete_log = usb.pixel_index,
                              !.log_mutex = "free"]
    /\ usb' = [FrameReset(usb) EXCEPT !.pc = "loop"]
    /\ hist' = LogTouch(hist, g_app, "rx")
    /\ UNCHANGED <<udp, ui, wire, stream, fw, net, now>>

\* freeze_frame: log_message up to its lock_guard, with the lock_guard on
\* data_mutex still in scope
FreezeLogLock ==
    /\ Alive
    /\ ui.pc = "freeze_log"
    /\ CanLog
    /\ g_app' = [g_app EXCEPT !.log_mutex = "ui"]
    /\ ui' = [ui EXCEPT !.pc = "freeze_logged"]
    /\ UNCHANGED <<usb, udp, wire, stream, fw, net, now, hist>>

\* the append, the return of log_message and the return of freeze_frame,
\* which releases data_mutex
FreezeLogReturn ==
    /\ Alive
    /\ ui.pc = "freeze_logged"
    /\ g_app' = [g_app EXCEPT !.log_mutex = "free", !.data_mutex = "free"]
    /\ ui' = [ui EXCEPT !.pc = "idle"]
    /\ hist' = LogTouch(hist, g_app, "ui")
    /\ UNCHANGED <<usb, udp, wire, stream, fw, net, now>>

NextLocks ==
    \/ ClickUsbConnect
    \/ ClickDisconnect
    \/ StopJoinRelease
    \/ UsbExit
    \/ UsbReadNone
    \/ UsbReadByte
    \/ UsbPubLock
    \/ UsbPubCopy
    \/ UsbPubUnlock
    \/ UsbCountLogLock
    \/ UsbLogUnlock
    \/ DrawLock
    \/ DrawCopy
    \/ DrawUnlock
    \/ FreezeLock
    \/ FreezeCopy
    \/ FreezePeaks
    \/ FreezeLogLock
    \/ FreezeLogReturn
    \/ Unfreeze
    \/ ConsoleClearLock
    \/ ConsoleClearUnlock
    \/ ConsoleSize
    \/ ConsoleIterLock
    \/ ConsoleIterUnlock

SpecLocks == Init /\ [][NextLocks]_vars

\* the mutex a thread is blocked on, at a lock_guard it has reached
UiWaitsFor ==
    IF ui.pc \in {"freeze_log", "console_iter_lock"} THEN "log_mutex" ELSE "none"

RxWaitsFor ==
    IF usb.pc = "pub_lock" THEN "data_mutex"
    ELSE IF usb.pc = "pub_count" THEN "log_mutex"
    ELSE "none"

Holds(thread, mutex) ==
    IF mutex = "data_mutex" THEN g_app.data_mutex = thread
    ELSE IF mutex = "log_mutex" THEN g_app.log_mutex = thread
    ELSE FALSE

\* each thread is blocked on a mutex that the other holds
Deadlocked ==
    /\ Holds("rx", UiWaitsFor)
    /\ Holds("ui", RxWaitsFor)

\* a step that takes data_mutex is made by a thread that does not hold
\* log_mutex, and each mutex is held where the code holds it
DataBeforeLog ==
    /\ (g_app.data_mutex = "free" /\ g_app'.data_mutex # "free")
           => g_app.log_mutex # g_app'.data_mutex
    /\ g_app'.log_mutex = "rx" => usb'.pc = "pub_log"
    /\ g_app'.log_mutex = "ui" =>
           ui'.pc \in {"freeze_logged", "console_clear", "console_iter"}

\* C35: the two mutexes are acquired in one order: a thread may take
\* log_mutex while it holds data_mutex (freeze_frame logs under the data
\* lock), no thread takes data_mutex while it holds log_mutex, and the UI
\* thread and the receiver thread are never each blocked on a mutex the
\* other holds.
C35_LockOrder == [](~Deadlocked) /\ [][DataBeforeLog]_vars

\* freeze_frame holds both mutexes, log_mutex taken second, while the serial
\* thread waits for data_mutex to publish its next frame
C35_Witness ==
    /\ ui.pc = "freeze_logged"
    /\ g_app.data_mutex = "ui"
    /\ g_app.log_mutex = "ui"
    /\ usb.pc = "pub_lock"
    /\ g_app.packets_received = 1

(***************************************************************************)
(* The snapshot history viewer: the scan of the project folder, the load   *)
(* of a snapshot and the selection and creation of projects.               *)
(***************************************************************************)
MaxSnapshots == 3

MaxProjects == 3

\* the timestamp folders a project folder can hold; a later stamp is a
\* larger number
Stamps == 1..MaxSnapshots

\* std::sort(rbegin, rend): newest first
RECURSIVE SortedNewestFirst(_)
SortedNewestFirst(S) ==
    IF S = {}
    THEN <<>>
    ELSE LET m == CHOOSE x \in S : \A y \in S : y <= x
         IN  <<m>> \o SortedNewestFirst(S \ {m})

\* scan_snapshot_folders: found is the set of timestamp folders that the
\* directory_iterator meets in the folder of the current project
ScanSnapshotFolders(g, found) ==
    [g EXCEPT !.snapshot_timestamps = SortedNewestFirst(found)]

\* load_snapshot_history(index); csv tells whether spectrum_data.csv opens
LoadSnapshotHistory(g, index, csv) ==
    IF index < 0 \/ index >= Len(g.snapshot_timestamps)
    THEN [g EXCEPT !.history_loaded = FALSE]
    ELSE IF csv # "ok"
    THEN [g EXCEPT !.history_loaded = FALSE]
    ELSE [g EXCEPT !.history_selected_index = index, !.history_loaded = TRUE]

\* main, before its loop: scan_projects, which leaves at least the Default
\* project, and scan_snapshot_folders
MainScan ==
    /\ Alive
    /\ ui.pc = "idle"
    /\ g_app.projects = 0
    /\ CanLog
    /\ \E n \in 1..(MaxProjects - 1) : \E found \in SUBSET Stamps :
         g_app' = ScanSnapshotFolders(
                      [g_app EXCEPT !.projects = n,
                                    !.current_project_index =
                                        IF @ >= n THEN 0 ELSE @], found)
    /\ UNCHANGED <<usb, udp, ui, wire, stream, fw, net, now, hist>>

\* the Scan for Snapshots button of the history viewer
ClickScan ==
    /\ Alive
    /\ ui.pc = "idle"
    /\ g_app.projects > 0
    /\ CanLog
    /\ \E found \in SUBSET Stamps : g_app' = ScanSnapshotFolders(g_app, found)
    /\ UNCHANGED <<usb, udp, ui, wire, stream, fw, net, now, hist>>

\* the slider and the dropdown of the history viewer, drawn when
\* snapshot_timestamps is not empty: load_snapshot_history(i), i an index of
\* the list
SelectSnapshot ==
    /\ Alive
    /\ ui.pc = "idle"
    /\ g_app.projects > 0
    /\ g_app.snapshot_timestamps # <<>>
    /\ CanLog
    /\ \E i \in 0..(Len(g_app.snapshot_timestamps) - 1) : \E csv \in {"ok", "missing"} :
         g_app' = LoadSnapshotHistory(g_app, i, csv)
    /\ UNCHANGED <<usb, udp, ui, wire, stream, fw, net, now, hist>>

\* the project combo of the snapshot panel: current_project_index = i;
\* scan_snapshot_folders()
SelectProject ==
    /\ Alive
    /\ ui.pc = "idle"
    /\ g_app.projects > 0
    /\ CanLog
    /\ \E i \in 0..(g_app.projects - 1) : \E found \in SUBSET Stamps :
         g_app' = ScanSnapshotFolders([g_app EXCEPT !.current_project_index = i], found)
    /\ UNCHANGED <<usb, udp, ui, wire, stream, fw, net, now, hist>>

\* the Create button of the new-project popup: create_project, whose new
\* folder holds no snapshot, then scan_snapshot_folders()
CreateProject ==
    /\ Alive
    /\ ui.pc = "idle"
    /\ g_app.projects > 0
    /\ g_app.projects < MaxProjects
    /\ CanLog
    /\ g_app' = ScanSnapshotFolders(
                    [g_app EXCEPT !.projects = g_app.projects + 1,
                                  !.current_project_index = g_app.projects], {})
    /\ UNCHANGED <<usb, udp, ui, wire, stream, fw, net, now, hist>>

NextHistory ==
    \/ MainScan
    \/ ClickScan
    \/ SelectSnapshot
    \/ SelectProject
    \/ CreateProject

SpecHistory == Init /\ [][NextHistory]_vars

\* C38: whenever history_loaded is true, history_selected_index is a valid
\* index into snapshot_timestamps (0 <= index < size), after any sequence
\* of scan_snapshot_folders, load_snapshot_history, project selection and
\* project creation; so the history chart never indexes snapshot_timestamps
\* out of range.
C38_HistoryIndexValid ==
    g_app.history_loaded =>
        /\ 0 <= g_app.history_selected_index
        /\ g_app.history_selected_index < Len(g_app.snapshot_timestamps)

(***************************************************************************)
(* Peak detection: detect_peaks on every short frozen frame, with the      *)
(* Threshold and Min Distance sliders of the snapshot panel.               *)
(***************************************************************************)
\* the number of samples of the frames detect_peaks is run on here: the
\* CCD_PIXEL_COUNT of its loop bound, n below
PeakPixels == 5

Intensities == {0, 1, 2}

\* the positions of the two sliders, on the scale of Intensities and of
\* PeakPixels
Thresholds == {1, 2}

Distances == {1, 2}

\* the inner loop: no sample other than data[i] within min_distance of i is
\* greater than or equal to val
IsLocalMaximumWeak(data, i, val, min_distance) ==
    \A j \in (i - min_distance)..(i + min_distance) : j # i => ~(data[j] > val)
IsLocalMaximum(data, i, val, min_distance) ==
    \A j \in (i - min_distance)..(i + min_distance) : j # i => ~(data[j] >= val)

\* the outer loop from index i on, data indexed from 0 as in the code: the
\* peaks pushed back, in the order of the pushes
RECURSIVE PeaksFrom(_, _, _, _, _)
PeaksFrom(data, n, i, threshold, min_distance) ==
    IF ~(i < n - min_distance)
    THEN <<>>
    ELSE IF data[i] < threshold
    THEN PeaksFrom(data, n, i + 1, threshold, min_distance)
    ELSE IF IsLocalMaximum(data, i, data[i], min_distance)
    THEN <<[pixel_index |-> i, intensity |-> data[i]]>>
             \o PeaksFrom(data, n, i + 1, threshold, min_distance)
    ELSE PeaksFrom(data, n, i + 1, threshold, min_distance)

\* detect_peaks: g_app.detected_peaks when it returns
DetectedPeaks(g, n) ==
    LET data == IF g.is_frozen THEN g.snapshot_data ELSE g.spectrum_data
    IN  PeaksFrom(data, n, g.peak_min_distance, g.peak_threshold, g.peak_min_distance)

\* the Re-detect Peaks button, shown while frozen
RedetectPeaks ==
    /\ Alive
    /\ ui.pc = "idle"
    /\ RedetectShown
    /\ g_app' = [g_app EXCEPT !.detected_peaks = DetectedPeaks(g_app, PeakPixels)]
    /\ ui' = UiCalled("detect_peaks", "none", "void")
    /\ UNCHANGED <<usb, udp, wire, stream, fw, net, now, hist>>

\* ImGui::SliderFloat("Threshold", &g_app.peak_threshold, ...)
SlideThreshold ==
    /\ Alive
    /\ ui.pc = "idle"
    /\ \E t \in Thresholds : g_app' = [g_app EXCEPT !.peak_threshold = t]
    /\ ui' = UiCalled("slider", "none", "void")
    /\ UNCHANGED <<usb, udp, wire, stream, fw, net, now, hist>>

\* ImGui::SliderInt("Min Distance", &g_app.peak_min_distance, ...)
SlideMinDistance ==
    /\ Alive
    /\ ui.pc = "idle"
    /\ \E d \in Distances : g_app' = [g_app EXCEPT !.peak_min_distance = d]
    /\ ui' = UiCalled("slider", "none", "void")
    /\ UNCHANGED <<usb, udp, wire, stream, fw, net, now, hist>>

\* a frozen frame of PeakPixels samples, the copy of the live frame
InitPeaks ==
    /\ \E data \in [0..(PeakPixels - 1) -> Intensities] :
         g_app = [AppStateInit EXCEPT !.spectrum_data = data,
                                      !.snapshot_data = data,
                                      !.is_frozen = TRUE]
    /\ fw = FirmwareInit
    /\ usb = UsbNoThread
    /\ udp = UdpNoThread
    /\ ui = UiInit
    /\ now = 0
    /\ hist = HistInit
    /\ stream = Sent(<<>>)
    /\ wire = <<>>
    /\ net = <<>>

NextPeaks ==
    \/ RedetectPeaks
    \/ SlideThreshold
    \/ SlideMinDistance

SpecPeaks == InitPeaks /\ [][NextPeaks]_vars

\* detect_peaks has just returned
AfterDetectPeaks == ui.call = "detect_peaks"

\* every peak lies min_distance or more from both ends of the frame, holds
\* the sample at its index, reaches the threshold and exceeds every other
\* sample within min_distance
PeaksAreStrictMaxima ==
    LET peaks == g_app.detected_peaks
        data  == g_app.snapshot_data
        d     == g_app.peak_min_distance
    IN  \A k \in 1..Len(peaks) :
            LET i == peaks[k].pixel_index
            IN  /\ d <= i
                /\ i < PeakPixels - d
                /\ peaks[k].intensity = data[i]
                /\ peaks[k].intensity >= g_app.peak_threshold
                /\ \A j \in 0..(PeakPixels - 1) :
                       (j # i /\ j >= i - d /\ j <= i + d)
                           => data[j] < peaks[k].intensity

\* peaks are listed by increasing index, more than min_distance apart
PeaksAreApart ==
    \A k \in 1..Len(g_app.detected_peaks) : \A m \in 1..Len(g_app.detected_peaks) :
        k < m => g_app.detected_peaks[m].pixel_index
                     > g_app.detected_peaks[k].pixel_index + g_app.peak_min_distance

\* C39: after detect_peaks every detected peak has an index i with
\* min_distance <= i < N - min_distance, an intensity of at least
\* peak_threshold and strictly greater than every other sample within
\* min_distance of i; so any two peaks are more than min_distance pixels
\* apart, and the peaks are listed in increasing pixel index.
C39_PeaksAreIsolatedMaxima ==
    AfterDetectPeaks => PeaksAreStrictMaxima /\ PeaksAreApart

\* two peaks were found, two pixels apart, with a minimum distance of 1
C39_Witness ==
    /\ AfterDetectPeaks
    /\ g_app.peak_min_distance = 1
    /\ g_app.peak_threshold = 2
    /\ Len(g_app.detected_peaks) = 2
    /\ g_app.detected_peaks[1].pixel_index = 1
    /\ g_app.detected_peaks[2].pixel_index = 3

(***************************************************************************)
(* The firmware alone: the DMA stream, the interrupt and the main loop.    *)
(***************************************************************************)
NextFirmware ==
    \/ DmaStore
    \/ ConvCpltCallback
    \/ SendBegin
    \/ SendCopy
    \/ SendEnd

SpecFirmware == Init /\ [][NextFirmware]_vars

\* the callback leaves ready_buffer on the buffer the DMA is not writing
ReadyAfterCallback ==
    (fw.irq /\ ~fw'.irq) => fw'.ready_buffer \notin {"NULL", DmaTarget(fw')}

\* the copy of the frame-send function reads a buffer the DMA is not
\* writing into
CopyAvoidsDma ==
    (fw.send_pc = "copy" /\ fw.send_i < CCD_PIXEL_COUNT) => fw.src # DmaTarget(fw)

\* C30: ready_buffer is the buffer that is safe to read: after every
\* conversion-complete callback it points to the buffer the DMA is not
\* writing, and the frame-send copy from ready_buffer never reads a buffer
\* while the DMA is writing into it.
C30_ReadyBufferIsSafe == []CopyAvoidsDma /\ [][ReadyAfterCallback]_vars

(***************************************************************************)
(* The statistics window: the receiver threads under an advancing clock.   *)
(***************************************************************************)
StatsWire == Frame(<<Record(1, 0)>>) \o Record(2, 0)

\* two datagrams that arrive in the reverse of the order they were sent in
StatsNet == << Datagram(UDP_MAGIC, 8, 1, <<4, 0>>), Datagram(UDP_MAGIC, 7, 1, <<6, 0>>) >>

InitStats ==
    /\ Base
    /\ stream = Sent(StatsWire)
    /\ wire = stream.bytes
    /\ net = StatsNet

NextStats ==
    \/ UsbThread
    \/ UdpThread
    \/ ClickUsbConnect
    \/ ClickUdpConnect
    \/ ClickDisconnect
    \/ StopJoinRelease
    \/ ClockAdvance

SpecStats == InitStats /\ [][NextStats]_vars

\* a step in which a receiver thread closes a statistics window of exactly
\* STATS_WINDOW_MS
TickAtWindow ==
    /\ hist'.ticks # hist.ticks
    /\ hist'.tick_elapsed = STATS_WINDOW_MS

\* what a tick at exactly STATS_WINDOW_MS leaves behind, hist.tick_count being
\* the number of frames published in the window
C8_TickStep ==
    TickAtWindow =>
        LET l == IF hist'.tick_kind = "usb" THEN usb' ELSE udp'
        IN  /\ g_app'.packets_per_second = <<hist'.tick_count, 1>>
            /\ l.packets_since_last = 0
            /\ l.last_stats_time = now

\* C8: a statistics tick taken exactly 1000 ms after the window start, with N
\* frames published in the window, sets packets_per_second to N, resets the
\* per-window counter to 0 and sets the window start to the time of the tick.
C8_RateAtOneSecond == [][C8_TickStep]_vars

\* a tick of the UDP receiver that closed a window of 1000 ms with two frames
C8_Witness ==
    /\ hist.ticks >= 1
    /\ hist.tick_kind = "udp"
    /\ hist.tick_elapsed = STATS_WINDOW_MS
    /\ hist.tick_count = 2
    /\ g_app.packets_per_second = <<2, 1>>
    /\ udp.packets_since_last = 0
    /\ udp.last_stats_time = now

\* the step that ends a publication: the receiver thread, past the copy and
\* the unlock, counts the frame
UsbCounts == usb.pc = "pub_count" /\ usb'.pc = "loop"

UdpCounts == udp.pc = "pub_count" /\ udp'.pc = "loop"

\* packets_received grows by 1 in the steps that end a publication and is
\* left alone by every other step; the per-window counter of the publishing
\* thread grows by 1 in the same steps (the datagram loop then runs its
\* statistics block, which zeroes it when the window closes) and grows in
\* no other step
CounterStep ==
    /\ g_app'.packets_received =
           IF UsbCounts \/ UdpCounts
           THEN g_app.packets_received + 1
           ELSE g_app.packets_received
    /\ UsbCounts => usb'.packets_since_last = usb.packets_since_last + 1
    /\ UdpCounts => udp'.packets_since_last =
                        IF hist'.ticks # hist.ticks
                        THEN 0
                        ELSE udp.packets_since_last + 1
    /\ (UdpCounts /\ hist'.ticks # hist.ticks) =>
           g_app'.packets_per_second =
               Rate(udp.packets_since_last + 1, hist'.tick_elapsed)
    /\ usb'.packets_since_last > usb.packets_since_last => UsbCounts
    /\ udp'.packets_since_last > udp.packets_since_last => UdpCounts

\* every completed overwrite of the samples is counted once the publishing
\* thread is back in its loop
CountsPublications ==
    (usb.pc # "pub_count" /\ udp.pc # "pub_count")
        => g_app.packets_received = hist.overwrites

\* C25: the publish counters are incremented on every publication and only
\* then: packets_received and the per-window counter each grow by exactly 1
\* per serial frame completion or accepted datagram, and packets_received
\* never decreases over start, publish, tick and stop.
C25_CountersFollowPublications == []CountsPublications /\ [][CounterStep]_vars

\* a serial connection published one frame and was stopped, a UDP connection
\* then published two, with a statistics tick on the way
C25_Witness ==
    /\ g_app.packets_received = 3
    /\ hist.overwrites = 3
    /\ hist.ticks >= 1
    /\ hist.writer = "udp"
    /\ ui.before = "stop"
    /\ udp.pc = "loop"
    /\ udp.packets_since_last = 1

\* a step in which the serial thread, or the UDP thread, ends an iteration
\* of its loop and is back at the loop condition
UsbEndsIteration ==
    /\ usb.pc \in {"loop", "pub_count"}
    /\ usb'.pc = "loop"
    /\ usb' # usb

UdpEndsIteration ==
    /\ udp.pc \in {"loop", "pub_count"}
    /\ udp'.pc = "loop"
    /\ udp' # udp

\* an iteration that ends with the window open for STATS_WINDOW_MS or more
\* closes it: the rate is recomputed from the window's count and the window
\* restarts at the time of the tick
UsbTickChecked ==
    (UsbEndsIteration /\ UsbTickDue(usb)) =>
        /\ usb'.last_stats_time = now
        /\ usb'.packets_since_last = 0

UdpTickChecked ==
    (UdpEndsIteration /\ UdpTickDue(udp)) =>
        /\ udp'.last_stats_time = now
        /\ udp'.packets_since_last = 0

\* C26: for both transports the statistics tick is checked on every
\* iteration of the decode loop, whatever the iteration read: once
\* STATS_WINDOW_MS have elapsed since the window start, the iteration that
\* ends next recomputes packets_per_second and restarts the window.
C26_TickEveryIteration == [][UsbTickChecked /\ UdpTickChecked]_vars

\* the frame slot: the samples, the publish count and the rate statistics
Slot(g) ==
    [ spectrum_data      |-> g.spectrum_data,
      packets_received   |-> g.packets_received,
      last_sequence      |-> g.last_sequence,
      packets_per_second |-> g.packets_per_second ]

\* stop_receiver has returned and nothing was started since
Disconnected ==
    /\ ui.pc = "idle"
    /\ ui.call = "stop"
    /\ g_app.connection_mode = "None"

\* C28 as claimed: after stop_receiver completes the sample array still has
\* its CCD_PIXEL_COUNT elements and the slot (samples, publish count, rate
\* statistics) is back in its initial state.
C28_SlotResetOnDisconnect ==
    Disconnected =>
        /\ DOMAIN g_app.spectrum_data = Pixels
        /\ Slot(g_app) = Slot(AppStateInit)

\* a step of stop_receiver: its first statement, or the join and the release
StopReceiverStep ==
    \/ ui.pc = "idle" /\ ui'.pc = "stop_join"
    \/ ui.pc = "stop_join" /\ ui'.pc = "idle"

\* C28 amended: on disconnect the frame slot is neither destroyed nor reset:
\* the sample array keeps its CCD_PIXEL_COUNT elements and no step of
\* stop_receiver changes the samples, the publish count or the rate
\* statistics, which stay as the receiver thread left them.
C28_SlotKeptOnDisconnect ==
    /\ [](DOMAIN g_app.spectrum_data = Pixels)
    /\ [][StopReceiverStep => Slot(g_app') = Slot(g_app)]_vars

\* disconnected after a serial connection that published one frame and
\* closed a statistics window with it
C28_Witness ==
    /\ Disconnected
    /\ ui.stopped = "USB"
    /\ g_app.spectrum_data[1] = 1
    /\ g_app.packets_received = 1
    /\ g_app.packets_per_second = <<1, 1>>


(***************************************************************************)
(* The serial decoder on well-formed frames: a frame-start marker, K pixel *)
(* records and the frame-start marker of the next frame.                   *)
(***************************************************************************)
LowBytes == {1, 2, USB_FRAME_START, USB_PIXEL_START, USB_PIXEL_END}

HighBytes == {0, USB_FRAME_START, USB_PIXEL_START}

SerialRecords == {Record(lo, hi) : lo \in LowBytes, hi \in HighBytes}

InitSerial ==
    /\ Base
    /\ stream \in {Sent(Frame(recs)) : recs \in SeqsUpTo(SerialRecords, CCD_PIXEL_COUNT + 1)}
    /\ wire = stream.bytes
    /\ net = <<>>

NextSerial ==
    \/ ClickUsbConnect
    \/ UsbReadNone
    \/ UsbReadByte
    \/ UsbPubLock
    \/ UsbPubCopy
    \/ UsbPubUnlock
    \/ UsbPubCount

SpecSerial == InitSerial /\ [][NextSerial]_vars

\* the serial thread has taken every byte of the transmission and is back at
\* the top of its loop
SerialDone == wire = <<>> /\ usb.pc = "loop"

\* no data byte of the transmission is the frame-start value
NoMarkerInData ==
    \A k \in 1..RecordCount(stream) :
        /\ RecordAt(stream, k)[2] # USB_FRAME_START
        /\ RecordAt(stream, k)[3] # USB_FRAME_START


\* C2 as claimed: a well-formed transmission of K >= 1 records, whatever
\* their data bytes, ends with one frame published whose logged sample
\* count is min(K, capacity).
C2_CountAnyData ==
    (SerialDone /\ RecordCount(stream) >= 1)
        => /\ g_app.packets_received = 1
           /\ g_app.frame_complete_log = Min(RecordCount(stream), CCD_PIXEL_COUNT)

\* C2 amended: the same for every choice of the data bytes other than the
\* frame-start value 0x11.
C2_CountMarkerFreeData ==
    (SerialDone /\ RecordCount(stream) >= 1 /\ NoMarkerInData)
        => /\ g_app.packets_received = 1
           /\ g_app.frame_complete_log = Min(RecordCount(stream), CCD_PIXEL_COUNT)

C2_Witness ==
    /\ SerialDone
    /\ NoMarkerInData
    /\ RecordCount(stream) = CCD_PIXEL_COUNT + 1
    /\ g_app.packets_received = 1
    /\ g_app.frame_complete_log = CCD_PIXEL_COUNT

\* C3 as claimed: marker, K records, marker gives exactly one publication,
\* made at the second marker, and slot i holds low_i + 256 * high_i for
\* every record i.
C3_OnePublicationAnyData ==
    /\ (wire # <<>> /\ RecordCount(stream) >= 1) => g_app.packets_received = 0
    /\ (SerialDone /\ RecordCount(stream) >= 1)
         => /\ g_app.packets_received = 1
            /\ \A k \in 1..RecordCount(stream) :
                 /\ k \in Pixels
                 /\ g_app.spectrum_data[k] =
                        RecordAt(stream, k)[2] + 256 * RecordAt(stream, k)[3]

\* C3 amended: with K >= 1 records whose data bytes are not 0x11 there is
\* exactly one publication, made at the second marker, and slot i holds
\* low_i + 256 * high_i for each of the first min(K, capacity) records.
C3_OnePublicationMarkerFree ==
    /\ (wire # <<>> /\ RecordCount(stream) >= 1 /\ NoMarkerInData)
         => g_app.packets_received = 0
    /\ (SerialDone /\ RecordCount(stream) >= 1 /\ NoMarkerInData)
         => /\ g_app.packets_received = 1
            /\ \A k \in 1..Min(RecordCount(stream), CCD_PIXEL_COUNT) :
                 g_app.spectrum_data[k] =
                     RecordAt(stream, k)[2] + 256 * RecordAt(stream, k)[3]

C3_Witness ==
    /\ SerialDone
    /\ stream.bytes = <<17, 165, 1, 0, 90, 165, 2, 0, 90, 17>>
    /\ g_app.packets_received = 1
    /\ g_app.spectrum_data[1] = 1
    /\ g_app.spectrum_data[2] = 2


(***************************************************************************)
(* The serial decoder on a frame of CCD_PIXEL_COUNT + 1 records of which   *)
(* the line corrupts one byte so that the record no longer validates.      *)
(***************************************************************************)
CorruptLowBytes == {1, USB_FRAME_START, USB_PIXEL_END}

CorruptHighBytes == {0, USB_PIXEL_START}

CorruptingBytes == {0, USB_FRAME_START, USB_PIXEL_START, USB_PIXEL_END}

CorruptRecords == {Record(lo, hi) : lo \in CorruptLowBytes, hi \in CorruptHighBytes}

\* replacing byte pos of rec by x breaks its 4-byte pattern
BreaksPattern(rec, pos, x) ==
    /\ x # rec[pos]
    /\ \/ pos \in {1, 4}
       \/ x = USB_FRAME_START

InitCorrupt ==
    /\ Base
    /\ \E recs \in [1..(CCD_PIXEL_COUNT + 1) -> CorruptRecords] :
         \E rec \in 1..(CCD_PIXEL_COUNT + 1), pos \in 1..4, x \in CorruptingBytes :
            /\ BreaksPattern(recs[rec], pos, x)
            /\ stream = Corrupted(recs, rec, pos, x)
    /\ wire = stream.bytes
    /\ net = <<>>

SpecCorrupt == InitCorrupt /\ [][NextSerial]_vars

\* the k-th record of the frame that the line left alone
IntactRecord(k) == RecordAt(stream, IF k < stream.rec THEN k ELSE k + 1)

\* the serial thread is back at the top of its loop having just taken the
\* last byte of record k
AfterRecord(k) == usb.pc = "loop" /\ Len(wire) = Len(stream.bytes) - (1 + 4 * k)

\* the decoder skipped the corrupted record and nothing else: after the
\* corrupted record at most 3 stale bytes wait in the window, after every
\* later record the window is empty and the record is counted, and the
\* frame is published with every intact record's value in arrival order
SkippedExactlyOne ==
    /\ AfterRecord(stream.rec) => Len(usb.buffer) <= 3
    /\ \A k \in (stream.rec + 1)..RecordCount(stream) :
         AfterRecord(k) => /\ usb.buffer = <<>>
                           /\ usb.pixel_index = Min(k - 1, CCD_PIXEL_COUNT)
    /\ SerialDone
         => /\ g_app.packets_received = 1
            /\ g_app.frame_complete_log = RecordCount(stream) - 1
            /\ \A k \in 1..(RecordCount(stream) - 1) :
                 g_app.spectrum_data[k] = IntactRecord(k)[2] + 256 * IntactRecord(k)[3]

\* C6 as claimed: one corrupted byte that breaks a record's pattern makes
\* the decoder skip exactly that record, whatever the bytes are.
CorruptedByte == RecordAt(stream, stream.rec)[stream.pos]

\* neither a data byte of the frame nor the corrupting byte is 0x11
NoFrameStartInFrame ==
    /\ NoMarkerInData
    /\ CorruptedByte # USB_FRAME_START

\* the corrupted record, as received, holds no 0xA5 after its first byte
NoStrayPixelStart ==
    \A p \in 2..4 : RecordAt(stream, stream.rec)[p] # USB_PIXEL_START

\* the record after the corrupted one has no 0x5A data byte
NoStrayPixelEnd ==
    stream.rec < RecordCount(stream)
        => \A p \in 2..3 : RecordAt(stream, stream.rec + 1)[p] # USB_PIXEL_END

\* C6 as claimed: one corrupted byte that breaks a record's pattern makes
\* the decoder skip exactly that record and decode every later record
\* (stated here for the frames that hold no 0x11 at all).
C6_SkipsOneAnyBytes ==
    (stream.rec > 0 /\ NoFrameStartInFrame) => SkippedExactlyOne

\* C6 amended: the decoder skips exactly the corrupted record provided that
\* no data byte of the frame and not the corrupting byte is 0x11, and that
\* the corrupted record holds no 0xA5 after its first byte or the record
\* after it has no 0x5A data byte.
C6_SkipsOneUnambiguous ==
    (stream.rec > 0 /\ NoFrameStartInFrame /\ (NoStrayPixelStart \/ NoStrayPixelEnd))
        => SkippedExactlyOne

C6_Witness ==
    /\ stream.rec = 1
    /\ stream.pos = 4
    /\ NoFrameStartInFrame
    /\ NoStrayPixelStart
    /\ ~NoStrayPixelEnd
    /\ SerialDone
    /\ g_app.packets_received = 1
    /\ g_app.frame_complete_log = CCD_PIXEL_COUNT


\* the serial thread takes a byte other than the frame-start marker while a
\* frame is in progress; Window is the rolling window with that byte stored
ByteInsideFrame ==
    /\ wire # <<>>
    /\ wire' = Tail(wire)
    /\ Head(wire) # USB_FRAME_START
    /\ usb.receiving_frame

Window == Append(usb.buffer, Head(wire))

\* the record pattern validates at the head of a window of four bytes
Validates(w) == w[1] = USB_PIXEL_START /\ w[4] = USB_PIXEL_END

\* the four bytes are consumed as one sample, which is stored while the
\* frame has room for it
ConsumedAsSample(w) ==
    /\ usb'.buffer = SubSeq(w, 5, Len(w))
    /\ usb'.pixel_index = Min(usb.pixel_index + 1, CCD_PIXEL_COUNT)
    /\ usb.pixel_index < CCD_PIXEL_COUNT =>
           /\ usb'.temp_pixels[usb.pixel_index + 1] = w[2] + 256 * w[3]
           /\ \A k \in Pixels \ {usb.pixel_index + 1} :
                  usb'.temp_pixels[k] = usb.temp_pixels[k]
    /\ usb.pixel_index >= CCD_PIXEL_COUNT => usb'.temp_pixels = usb.temp_pixels

\* n leading bytes are discarded and no sample is assembled
DiscardedLeading(w, n) ==
    /\ usb'.buffer = SubSeq(w, n + 1, Len(w))
    /\ usb'.pixel_index = usb.pixel_index
    /\ usb'.temp_pixels = usb.temp_pixels

\* a window of fewer than four bytes is left as it is
ShortWindowKept(w) == Len(w) < 4 => DiscardedLeading(w, 0)

\* a parser step on a window of four bytes consumes the four bytes as one
\* sample when the pattern validates and otherwise discards exactly one
\* leading byte
ParserStepOneByte ==
    ByteInsideFrame =>
        LET w == Window
        IN  /\ ShortWindowKept(w)
            /\ Len(w) >= 4 =>
                   /\ Len(w) = 4
                   /\ IF Validates(w) THEN ConsumedAsSample(w) ELSE DiscardedLeading(w, 1)

\* C31 as claimed: while a serial frame is in progress, each step of the
\* pixel parser either consumes exactly 4 bytes as one sample or, when the
\* pattern does not validate, discards exactly one leading byte and retries;
\* it never discards the whole window on a failed validation.
C31_OneByteOrOneSample == [][ParserStepOneByte]_vars

\* the bytes before position n + 1 of the window are not the pixel-start
\* marker, and the byte at position n + 1, if there is one, is
UpToPixelStart(w, n) ==
    /\ \A j \in 1..n : w[j] # USB_PIXEL_START
    /\ n < Len(w) => w[n + 1] = USB_PIXEL_START

ParserStepResync ==
    ByteInsideFrame =>
        LET w == Window
        IN  /\ ShortWindowKept(w)
            /\ Len(w) >= 4 =>
                   /\ Len(w) = 4
                   /\ IF Validates(w)
                      THEN ConsumedAsSample(w)
                      ELSE IF w[1] = USB_PIXEL_START
                      THEN DiscardedLeading(w, 1)
                      ELSE \E n \in 1..4 : UpToPixelStart(w, n) /\ DiscardedLeading(w, n)

\* C31 amended: each step of the pixel parser either consumes exactly 4 bytes
\* as one sample, or, when the window begins with the pixel-start marker but
\* the byte three positions later is not the pixel-end marker, discards
\* exactly one leading byte, or, when the window does not begin with the
\* pixel-start marker, discards every byte before the first pixel-start
\* marker of the window, which is the whole window when it holds none.
C31_ResyncToPixelStart == [][ParserStepResync]_vars

\* the first byte of the first record was corrupted: its four bytes, none of
\* them a pixel-start marker, were discarded in one step, and the next record
\* was assembled as the first sample
C31_Witness ==
    /\ stream.rec = 1
    /\ stream.pos = 1
    /\ SubSeq(stream.bytes, 2, 5) = <<0, 1, 0, USB_PIXEL_END>>
    /\ usb.pc = "loop"
    /\ Len(wire) = Len(stream.bytes) - 9
    /\ usb.buffer = <<>>
    /\ usb.pixel_index = 1


\* the serial thread takes a frame-start marker
MarkerTaken ==
    /\ wire # <<>>
    /\ wire' = Tail(wire)
    /\ Head(wire) = USB_FRAME_START

\* the state every frame starts from
FrameRestarted(l) ==
    /\ l.pc = "loop"
    /\ l.buffer = <<>>
    /\ l.pixel_index = 0
    /\ l.receiving_frame

\* a marker ends the frame in progress: with a pixel assembled the frame is
\* published and the decoder restarts when the publication is counted, and
\* otherwise the decoder restarts at once and nothing is published
MarkerStep ==
    /\ MarkerTaken =>
           IF usb.receiving_frame /\ usb.pixel_index > 0
           THEN usb'.pc = "pub_lock" /\ usb'.temp_pixels = usb.temp_pixels
           ELSE FrameRestarted(usb') /\ g_app' = g_app
    /\ (usb.pc = "pub_count" /\ usb'.pc = "loop") =>
           /\ FrameRestarted(usb')
           /\ g_app'.packets_received = g_app.packets_received + 1

\* record k of the transmission holds the marker value as a data byte
MarkerInRecord(k) ==
    \/ RecordAt(stream, k)[2] = USB_FRAME_START
    \/ RecordAt(stream, k)[3] = USB_FRAME_START

\* the bytes of record k that follow its last marker value
AfterMarkerIn(k) ==
    IF RecordAt(stream, k)[3] = USB_FRAME_START
    THEN SubSeq(RecordAt(stream, k), 4, 4)
    ELSE SubSeq(RecordAt(stream, k), 3, 4)

\* once the last byte of such a record is taken, no pixel has been
\* assembled from it: the frame is at index 0 and the window holds only the
\* bytes that came after the marker value
RecordLost ==
    \A k \in 1..RecordCount(stream) :
        (AfterRecord(k) /\ MarkerInRecord(k)) =>
            /\ usb.pixel_index = 0
            /\ usb.receiving_frame
            /\ usb.buffer = AfterMarkerIn(k)

\* C33: every received serial byte equal to 0x11 is treated as a frame-start
\* marker wherever it arrives, also as the low or high data byte of a pixel
\* record: it ends the current frame (publishing it if at least one pixel
\* was assembled), clears the window and resets the pixel index to 0, so the
\* record it belonged to is lost.
C33_MarkerAnywhere == []RecordLost /\ [][MarkerStep]_vars

\* the high data byte of the second record was 0x11: the frame was published
\* there with the one pixel of the first record, and the marker that ends the
\* transmission found no pixel and published nothing
C33_Witness ==
    /\ SerialDone
    /\ RecordCount(stream) = 2
    /\ RecordAt(stream, 1) = Record(1, 0)
    /\ RecordAt(stream, 2) = Record(2, USB_FRAME_START)
    /\ g_app.packets_received = 1
    /\ g_app.frame_complete_log = 1
    /\ g_app.spectrum_data[1] = 1
    /\ usb.pixel_index = 0


(***************************************************************************)
(* The serial decoder on a well-formed frame that follows arbitrary bytes: *)
(* markers, whole records, cut records and stray bytes, in any order.      *)
(***************************************************************************)
MaxFragments == 3

Fragments ==
    {<<USB_FRAME_START>>, Record(1, 1), <<USB_PIXEL_START, 1>>, <<USB_PIXEL_END>>, <<1>>}

FollowingRecords == {Record(2, 0), Record(USB_FRAME_START, 1)}

\* a transmission that reaches the port as it was sent: noise, then a frame;
\* pos is the number of bytes that precede the frame
Preceded(noise, recs) ==
    [bytes |-> noise \o Frame(recs), rec |-> 0, pos |-> Len(noise)]

InitNoise ==
    /\ Base
    /\ stream \in {Preceded(Flatten(fs), recs) :
                      fs \in SeqsUpTo(Fragments, MaxFragments),
                      recs \in SeqsUpTo(FollowingRecords, CCD_PIXEL_COUNT + 1)}
    /\ wire = stream.bytes
    /\ net = <<>>

SpecNoise == InitNoise /\ [][NextSerial]_vars

\* the records of the frame that follows the noise, as they arrive
FollowingCount == (Len(stream.bytes) - stream.pos - 2) \div 4

FollowingRecord(k) ==
    SubSeq(stream.bytes, stream.pos + 4 * k - 2, stream.pos + 4 * k + 1)

FollowingIsMarkerFree ==
    \A k \in 1..FollowingCount :
        /\ FollowingRecord(k)[2] # USB_FRAME_START
        /\ FollowingRecord(k)[3] # USB_FRAME_START

\* the serial thread is back at the top of its loop having taken the noise
\* and the frame-start marker of the frame that follows it
AfterFollowingMarker ==
    /\ usb.pc = "loop"
    /\ Len(wire) = Len(stream.bytes) - stream.pos - 1

\* the channel is as start_usb_receiver left it and the thread is in its loop
ChannelKeepsRunning ==
    UsbThreadExists =>
        /\ g_app.receiver_running
        /\ g_app.connection_mode = "USB"
        /\ g_app.serial_handle = "open"
        /\ ~g_app.terminated
        /\ usb.pc # "done"

\* the state every frame starts from
DecoderResynchronised ==
    AfterFollowingMarker =>
        /\ usb.buffer = <<>>
        /\ usb.pixel_index = 0
        /\ usb.pixels_this_frame = 0
        /\ usb.receiving_frame

\* the frame that follows the noise has been published with its count and
\* its values
FollowingPublished ==
    /\ g_app.packets_received >= 1
    /\ g_app.packets_received = hist.overwrites
    /\ g_app.frame_complete_log = Min(FollowingCount, CCD_PIXEL_COUNT)
    /\ \A k \in 1..Min(FollowingCount, CCD_PIXEL_COUNT) :
           g_app.spectrum_data[k] =
               FollowingRecord(k)[2] + 256 * FollowingRecord(k)[3]

\* C21 as claimed: whatever bytes precede it, the channel keeps running, the
\* next frame-start marker leaves the decoder with an empty window, pixel
\* index 0 and a frame in progress, and the well-formed frame that follows,
\* whatever its data bytes, is published with its count and values.
C21_AnyFrameAfterNoise ==
    /\ ChannelKeepsRunning
    /\ DecoderResynchronised
    /\ (SerialDone /\ FollowingCount >= 1) => FollowingPublished

\* C21 amended: the same, for a following frame whose data bytes are not the
\* frame-start value 0x11.
C21_MarkerFreeFrameAfterNoise ==
    /\ ChannelKeepsRunning
    /\ DecoderResynchronised
    /\ (SerialDone /\ FollowingCount >= 1 /\ FollowingIsMarkerFree)
           => FollowingPublished

\* noise that held a frame of its own and then a cut record, and after it a
\* frame of CCD_PIXEL_COUNT + 1 records, published as the second frame
C21_Witness ==
    /\ SerialDone
    /\ stream.pos = 7
    /\ SubSeq(stream.bytes, 1, 7) = <<17, 165, 1, 1, 90, 165, 1>>
    /\ FollowingCount = CCD_PIXEL_COUNT + 1
    /\ FollowingIsMarkerFree
    /\ g_app.packets_received = 2
    /\ g_app.spectrum_data[1] = 2
    /\ g_app.frame_complete_log = CCD_PIXEL_COUNT


(***************************************************************************)
(* The serial decoder before the first frame: arbitrary bytes and then a   *)
(* frame of one record, under an advancing clock.                          *)
(***************************************************************************)
InitDiscard ==
    /\ Base
    /\ stream \in {Preceded(Flatten(fs), <<Record(2, 0)>>) :
                      fs \in SeqsUpTo(Fragments, MaxFragments)}
    /\ wire = stream.bytes
    /\ net = <<>>

NextDiscard ==
    \/ NextSerial
    \/ ClockAdvance

SpecDiscard == InitDiscard /\ [][NextDiscard]_vars

\* the serial thread takes a byte other than the frame-start marker while no
\* frame is in progress
ByteOutsideFrame ==
    /\ wire # <<>>
    /\ wire' = Tail(wire)
    /\ Head(wire) # USB_FRAME_START
    /\ ~usb.receiving_frame

\* such a step changes neither the thread's locals nor the shared state
DiscardStep ==
    ByteOutsideFrame =>
        /\ usb' = usb
        /\ g_app' = g_app
        /\ hist' = hist

\* before the first frame-start marker the decoder holds nothing
NothingBeforeFirstMarker ==
    (UsbThreadExists /\ ~usb.receiving_frame) =>
        /\ usb.buffer = <<>>
        /\ usb.pixel_index = 0
        /\ usb.pixels_this_frame = 0
        /\ usb.packets_since_last = 0

\* C22: while no serial frame is in progress, every received byte other than
\* the frame-start marker is discarded: it leaves the window empty, the pixel
\* index at 0, and the shared sample array and all counters unchanged.
C22_DiscardOutsideFrame == []NothingBeforeFirstMarker /\ [][DiscardStep]_vars

\* four bytes, a whole record among them, were discarded before any marker,
\* the last of them more than a second after the thread started
C22_Witness ==
    /\ usb.pc = "loop"
    /\ ~usb.receiving_frame
    /\ SubSeq(stream.bytes, 1, 4) = Record(1, 1)
    /\ Len(wire) = Len(stream.bytes) - 4
    /\ now - usb.last_stats_time >= STATS_WINDOW_MS
    /\ usb.buffer = <<>>


(***************************************************************************)
(* The serial decoder from the start of the thread to the stop_receiver    *)
(* that main calls on exit: markers, records, cut records and stray bytes  *)
(* in any order, and a stop at any point of the stream.                    *)
(***************************************************************************)
InitPublish ==
    /\ Base
    /\ stream \in {Sent(Flatten(fs)) : fs \in SeqsUpTo(Fragments, MaxFragments)}
    /\ wire = stream.bytes
    /\ net = <<>>

NextPublish ==
    \/ NextSerial
    \/ UsbExit
    \/ MainExitStop
    \/ MainExitJoinRelease

SpecPublish == InitPublish /\ [][NextPublish]_vars

\* the bytes the serial thread has taken so far
Taken == SubSeq(stream.bytes, 1, Len(stream.bytes) - Len(wire))

\* byte i of s is a frame-start marker that ends a frame with a record in
\* it: a marker precedes it, and between that marker and byte i, with no
\* marker in between, four bytes begin with 0xA5 and end with 0x5A
Completes(s, i) ==
    /\ s[i] = USB_FRAME_START
    /\ \E k \in 1..(i - 4) :
          /\ s[k] = USB_PIXEL_START
          /\ s[k + 3] = USB_PIXEL_END
          /\ \A j \in k..(i - 1) : s[j] # USB_FRAME_START
          /\ \E p \in 1..(k - 1) : s[p] = USB_FRAME_START

PublishedFrames(s) == Cardinality({i \in 1..Len(s) : Completes(s, i)})

\* the publications made are exactly those of the markers taken that ended
\* a frame with a record in it; the last of them may still be under way
PublishedAtMarkersOnly ==
    IF Publishing(usb)
    THEN /\ Completes(Taken, Len(Taken))
         /\ g_app.packets_received = PublishedFrames(Taken) - 1
    ELSE /\ g_app.packets_received = PublishedFrames(Taken)
         /\ g_app.packets_received = hist.overwrites
         /\ g_app.spectrum_data = hist.pub_new

\* a publication begins in the step that takes a frame-start marker
PublicationStep ==
    (~Publishing(usb) /\ Publishing(usb')) =>
        /\ wire # <<>>
        /\ Head(wire) = USB_FRAME_START
        /\ wire' = Tail(wire)
        /\ usb.receiving_frame
        /\ usb.pixel_index > 0

\* C32: the serial decoder publishes only on receipt of a frame-start marker
\* that ends a frame in progress with at least one assembled pixel: the
\* first marker, a marker that follows another marker or only invalid bytes
\* publish nothing, and pixels assembled after the last marker are never
\* published when the channel is stopped before the next marker.
C32_PublishOnMarkerOnly == []PublishedAtMarkersOnly /\ [][PublicationStep]_vars

\* the channel was stopped after a marker and a whole record, before the
\* marker that would have ended the frame: nothing was published
C32_Witness ==
    /\ ui.pc = "exited"
    /\ stream.bytes = <<USB_FRAME_START>> \o Record(1, 1) \o <<USB_FRAME_START>>
    /\ wire = <<USB_FRAME_START>>
    /\ ~UsbThreadExists
    /\ g_app.packets_received = 0
    /\ g_app.spectrum_data = ZeroPixels


(***************************************************************************)
(* The serial decoder on every short sequence of bytes.                    *)
(***************************************************************************)
MaxBytes == 6

SerialAlphabet == {USB_FRAME_START, USB_PIXEL_START, USB_PIXEL_END, 1}

InitWindow ==
    /\ Base
    /\ stream \in {Sent(bs) : bs \in SeqsUpTo(SerialAlphabet, MaxBytes)}
    /\ wire = stream.bytes
    /\ net = <<>>

SpecWindow == InitWindow /\ [][NextSerial]_vars

\* C34: in the serial receiver, after each received byte has been fully
\* processed the rolling window holds at most 3 bytes, for every byte
\* sequence; the window never reaches its capacity of SERIAL_BUFFER_SIZE
\* bytes, so the capacity guard never drops a received byte.
C34_WindowAtMostThree ==
    /\ usb.pc = "loop" => Len(usb.buffer) <= 3
    /\ Len(usb.buffer) < SERIAL_BUFFER_SIZE

\* a cut record and the start of the next one: the parser dropped the first
\* of four bytes and three wait in the window
C34_Witness ==
    /\ usb.pc = "loop"
    /\ Taken = <<USB_FRAME_START, USB_PIXEL_START, 1, USB_PIXEL_START, 1>>
    /\ usb.buffer = <<1, USB_PIXEL_START, 1>>
    /\ usb.receiving_frame


(***************************************************************************)
(* The datagram decoder on every short sequence of datagrams.              *)
(***************************************************************************)
MaxDatagrams == 3

DgFull == Datagram(UDP_MAGIC, 1, 2, <<7, 0, 9, 0>>)

DgShortPayload == Datagram(UDP_MAGIC, 2, 2, <<5, 0>>)

DgTruncated == SubSeq(Datagram(UDP_MAGIC, 3, 1, <<>>), 1, UDP_HEADER_SIZE - 1)

DgBadMagic == Datagram(UDP_MAGIC + 1, 4, 1, <<3, 0>>)

DgOverCount ==
    Datagram(UDP_MAGIC, 5, CCD_PIXEL_COUNT + 1, [k \in 1..(2 * CCD_PIXEL_COUNT + 2) |-> 8])

DgOversize ==
    Datagram(UDP_MAGIC, 6, 1, [k \in 1..(UdpBufferSize - UDP_HEADER_SIZE + 1) |-> 6])

\* a datagram with its checksum bytes, the last two of the header, replaced
WithChecksum(d, lo, hi) ==
    [k \in 1..Len(d) |-> IF k = 12 THEN lo ELSE IF k = 13 THEN hi ELSE d[k]]

DgChecksum == WithChecksum(DgFull, 255, 1)

Datagrams ==
    {DgFull, DgShortPayload, DgTruncated, DgBadMagic, DgOverCount, DgOversize, DgChecksum}

InitUdp ==
    /\ Base
    /\ stream = Sent(<<>>)
    /\ wire = <<>>
    /\ net \in SeqsUpTo(Datagrams, MaxDatagrams)

NextUdp ==
    \/ ClickUdpConnect
    \/ UdpRecvNone
    \/ UdpRecv
    \/ UdpPubLock
    \/ UdpPubCopy
    \/ UdpPubUnlock
    \/ UdpPubCount

SpecUdp == InitUdp /\ [][NextUdp]_vars

\* a datagram the claim says is discarded
Discardable(d) ==
    \/ Len(d) < 13
    \/ d[1] # 170
    \/ d[10] + 256 * d[11] > CCD_PIXEL_COUNT

\* C4: the step that receives a datagram shorter than the header, with a
\* wrong magic byte or declaring more pixels than the capacity changes no
\* sample, increments neither packets_received nor the window counter,
\* leaves last_sequence alone and starts no publication.
C4_DiscardChangesNothing ==
    [][(net # <<>> /\ net' = Tail(net) /\ Discardable(Head(net)))
          => /\ g_app'.spectrum_data = g_app.spectrum_data
             /\ g_app'.packets_received = g_app.packets_received
             /\ g_app'.last_sequence = g_app.last_sequence
             /\ udp'.packets_since_last <= udp.packets_since_last
             /\ udp'.pc = "loop"]_vars

C4_Witness ==
    /\ hist.dgram = DgOverCount
    /\ hist.memo = {<<DgFull, [k \in Pixels |-> IF k = 1 THEN 7 ELSE IF k = 2 THEN 9 ELSE 0]>>}
    /\ net = <<>>
    /\ udp.pc = "loop"
    /\ g_app.packets_received = 1
    /\ g_app.spectrum_data[1] = 7
    /\ g_app.last_sequence = 1

\* the slots a datagram declares
DeclaredPixels(d) == 1..(d[10] + 256 * d[11])

\* C5: what an accepted datagram writes is a function of that datagram:
\* two publications of the same datagram leave the same values in the
\* slots it declares, whatever arrived before.
C5_DecodingIsPure ==
    \A p \in hist.memo : \A q \in hist.memo :
        p[1] = q[1] => \A k \in DeclaredPixels(p[1]) : p[2][k] = q[2][k]

\* the little-endian 16-bit and 32-bit values at a byte offset of a datagram,
\* -1 where the datagram has no such bytes
WireLe16(d, off) ==
    IF off + 2 <= Len(d) THEN d[off + 1] + 256 * d[off + 2] ELSE -1

WireLe32(d, off) ==
    IF off + 4 <= Len(d)
    THEN d[off + 1] + 256 * d[off + 2] + 65536 * d[off + 3] + 16777216 * d[off + 4]
    ELSE -1

\* a datagram the claim calls accepted
Acceptable(d) ==
    /\ Len(d) >= 13
    /\ d[1] = 170
    /\ WireLe16(d, 9) <= CCD_PIXEL_COUNT

\* C19: an accepted datagram is decoded from the packed 13-byte header: slot
\* i receives the little-endian 16-bit value at byte offset 13 + 2*i of the
\* datagram for every i < pixel_count, last_sequence becomes the header's
\* sequence number and packets_received grows by exactly 1.
C19_DecodesPackedHeader ==
    /\ \A p \in hist.memo :
           /\ Acceptable(p[1])
           /\ \A i \in 0..(WireLe16(p[1], 9) - 1) :
                  p[2][i + 1] = WireLe16(p[1], 13 + 2 * i)
    /\ (udp.pc = "loop" /\ hist.accepted # <<>>) =>
           /\ g_app.last_sequence = WireLe32(hist.accepted, 1)
           /\ g_app.packets_received = hist.overwrites

\* (checked on the statistics specification, whose datagrams arrive out of
\* order)
\* C27 as claimed: last_sequence is monotonically increasing: no accepted
\* datagram and no statistics tick sets it to a value lower than the one it
\* held before.
C27_SequenceMonotone == [][g_app'.last_sequence >= g_app.last_sequence]_vars

\* a statistics tick of the serial thread
UsbTicks == hist'.ticks # hist.ticks /\ hist'.tick_kind = "usb"

\* last_sequence is set by the step that counts an accepted datagram, to
\* that datagram's sequence number, and by a statistics tick of the serial
\* thread, to the number of records of the frame decoded so far; no other
\* step changes it
LastSequenceStep ==
    /\ UdpCounts => g_app'.last_sequence = WireLe32(hist.accepted, 1)
    /\ UsbTicks => g_app'.last_sequence = usb'.pixels_this_frame
    /\ g_app'.last_sequence # g_app.last_sequence => UdpCounts \/ UsbTicks

\* C27 amended: last_sequence is the most recent value observed, not a
\* monotone one: the sequence number of the last accepted datagram, whatever
\* the order of arrival, or the record count of the serial frame in progress
\* at the last serial statistics tick.
C27_SequenceIsMostRecent == [][LastSequenceStep]_vars

\* the datagram numbered 7 was accepted after the datagram numbered 8
C27_Witness ==
    /\ udp.pc = "loop"
    /\ hist.accepted = StatsNet[2]
    /\ g_app.packets_received = 2
    /\ g_app.last_sequence = 7
    /\ hist.ticks >= 1

ChecksumBytes == {0, 1, 255}

\* what the rest of the program can see of an iteration's result
Observable(r) ==
    [ accepted           |-> r.accepted,
      spectrum_data      |-> r.shared.spectrum_data,
      last_sequence      |-> r.shared.last_sequence,
      packets_received   |-> r.shared.packets_received,
      packets_per_second |-> r.shared.packets_per_second,
      packets_since_last |-> r.locals.packets_since_last,
      last_stats_time    |-> r.locals.last_stats_time ]

\* UdpIteration is what the thread's steps do: a step that receives a
\* datagram accepts it exactly when UdpIteration does, a discarding step ends
\* in UdpIteration's state, and so does the last step of a publication (the
\* buffer then still holds the datagram, and hist.pub_old the samples the
\* iteration began with)
IterationIsTheLoopBody ==
    /\ (net # <<>> /\ net' = Tail(net)) =>
           LET r == UdpIteration(udp, g_app, Head(net))
           IN  IF r.accepted
               THEN udp'.pc = "pub_lock"
               ELSE udp' = r.locals /\ g_app' = r.shared
    /\ (udp.pc = "pub_count" /\ udp'.pc = "loop") =>
           LET r == UdpIteration([udp EXCEPT !.pc = "loop"],
                                 [g_app EXCEPT !.spectrum_data = hist.pub_old],
                                 hist.dgram)
           IN  r.accepted /\ udp' = r.locals /\ g_app' = r.shared

\* from the top of the loop, the next datagram and the same datagram with
\* other checksum bytes end in the same observable result
ChecksumIgnored ==
    (udp.pc = "loop" /\ net # <<>>) =>
        \A lo \in ChecksumBytes : \A hi \in ChecksumBytes :
            Observable(UdpIteration(udp, g_app, WithChecksum(Head(net), lo, hi)))
                = Observable(UdpIteration(udp, g_app, Head(net)))

\* C20: the checksum field is unused: from any state of the receiver, the
\* next datagram and the same datagram with any other checksum bytes give the
\* same accept/discard decision, slot contents, last_sequence and counters.
C20_ChecksumUnused == []ChecksumIgnored /\ [][IterationIsTheLoopBody]_vars

\* the receiver has published a datagram and then the same datagram with
\* another checksum, with the same samples
C20_Witness ==
    /\ udp.pc = "loop"
    /\ hist.accepted = DgChecksum
    /\ hist.memo = {<<DgFull, g_app.spectrum_data>>, <<DgChecksum, g_app.spectrum_data>>}
    /\ g_app.spectrum_data[1] = 7
    /\ g_app.packets_received = 2

====
